---- MODULE Spec2Model ----
(***************************************************************************)
(* State-machine model of the gemini-images MCP server:                    *)
(*   - the session store (in-memory Map + durable mirror on disk),          *)
(*   - the request handler handleGenerateImage,                             *)
(*   - the upstream adapter generateImages with its three strategies.      *)
(* Time is counted in ticks; Date.now() is the variable now.                *)
(***************************************************************************)
EXTENDS Integers, Sequences, FiniteSets, TLC

(* ------------------------------ bounds --------------------------------- *)
\* last tick of the clock
MaxTime == 3
\* number of session ids crypto.randomBytes can hand out in one run
MaxIds == 2
\* number of session objects alive at once on the JS heap
MaxObj == 2
\* number of requests handled in one run of the full system
MaxRequests == 2
MaxConcurrentRequests == 3
\* largest number of images one upstream response carries
MaxBatch == 2
\* session TTL in ticks (config.sessionTtlMs, scaled)
SessionTtl == 1
\* largest count asked for when the full system is explored
MaxSystemCount == 2
\* number of direct calls to the session API in one run
MaxStoreCalls == 3
\* largest width and height, in pixels, of a size argument
MaxSide == 6
\* largest number of entries of an array in a response body
MaxShape == 2

(* -------------------------- program constants -------------------------- *)
\* clampInt(parseIntOr(n, 1), 1, 4)
MinCount == 1
MaxCount == 4
\* DEFAULTS.SESSION_MAX_HISTORY
SESSION_MAX_HISTORY == 10

\* session_id argument absent (null)
NullId == 0
\* a session_id string that no session was ever created with
UnknownId == 0 - 1
\* `./${id}`: a session_id string other than id that path.join resolves to the
\* file names of session id
Alias(id) == 0 - (id + 1)
\* the id in the file names path.join builds from a session_id string
PathId(sessionId) == IF sessionId < UnknownId THEN 0 - (sessionId + 1) ELSE sessionId

Ids == 1..MaxIds
Objs == 1..MaxObj

(* ------------------------------ images --------------------------------- *)
\* Optional values are sequences of length 0 or 1 (null / a value).
Null == <<>>
Some(x) == <<x>>

\* {base64, mimeType}; ImgB's payload is unpadded base64, which Node decodes
ImgA == [base64 |-> "QUJD", mimeType |-> "image/png"]
ImgB == [base64 |-> "QQ", mimeType |-> "image/jpeg"]
ImagePool == <<ImgA, ImgB>>

\* Buffer.from(s, "base64"): the bytes a payload decodes to
Base64Decode(s) ==
  CASE s = "QUJD" -> "ABC"
    [] s = "QQ" -> "A"
    [] s = "QQ==" -> "A"
    [] OTHER -> ""

\* buffer.toString("base64"): the canonical payload of bytes
Base64Encode(b) ==
  CASE b = "ABC" -> "QUJD"
    [] b = "A" -> "QQ=="
    [] OTHER -> ""

\* A string that may be a data URL: `data:${mimeType};base64,${base64}` or raw text
DataUrl(mimeType, base64) ==
  [isData |-> TRUE, mimeType |-> mimeType, base64 |-> base64, raw |-> ""]
RawString(s) ==
  [isData |-> FALSE, mimeType |-> "", base64 |-> "", raw |-> s]

\* /^data:([^;]+);base64,(.+)$/s : both groups must be non-empty
parseDataUrl(u) ==
  IF u.isData /\ u.mimeType # "" /\ u.base64 # ""
  THEN Some([mimeType |-> u.mimeType, base64 |-> u.base64])
  ELSE Null

(* ------------------------------ messages ------------------------------- *)
TextPart(t) ==
  [type |-> "text", text |-> t, url |-> RawString(""), refKey |-> 0 - 1]
ImagePart(u) ==
  [type |-> "image_url", text |-> "", url |-> u, refKey |-> 0 - 1]
\* {type: "image_url", _imageRefKey, image_url: {url: "[image stored separately]"}}
RefPart(k) ==
  [type |-> "image_url", text |-> "", url |-> RawString("[image stored separately]"),
   refKey |-> k]

\* msg.content is a string or an array of parts
StringContent(s) == [isArray |-> FALSE, text |-> s, parts |-> <<>>]
ArrayContent(ps) == [isArray |-> TRUE, text |-> "", parts |-> ps]
Message(role, content) == [role |-> role, content |-> content]

\* `[已生成 ${images.length} 张图片]`
GeneratedText(n) ==
  CASE n = 1 -> "[generated 1]"
    [] n = 2 -> "[generated 2]"
    [] n = 3 -> "[generated 3]"
    [] n = 4 -> "[generated 4]"
    [] OTHER -> "[generated 5+]"

buildUserContent(prompt, inputImage) ==
  IF inputImage # Null
  THEN ArrayContent(<<TextPart(prompt),
                      ImagePart(DataUrl(inputImage[1].mimeType, inputImage[1].base64))>>)
  ELSE StringContent(prompt)

\* array.slice(-k)
SliceLast(s, k) ==
  IF Len(s) <= k THEN s ELSE SubSeq(s, Len(s) - k + 1, Len(s))
\* array.slice(0, k)
SliceFirst(s, k) ==
  IF Len(s) <= k THEN s ELSE SubSeq(s, 1, k)

(* ------------------------------- state --------------------------------- *)
VARIABLES
  now,        \* Date.now(), in ticks
  imageMode,  \* config.imageMode (OPENAI_IMAGE_MODE), fixed for the process
  sessions,   \* the Map sessions: session id -> session object (a heap address)
  heap,       \* the session objects: address -> {id, messages, lastImage, createdAt, lastUsedAt}
  files,      \* sessions/{id}.json : id -> persisted record
  imgFiles,   \* images/{id}_{suffix}.png : <<id, kind, index>> -> bytes
  nextId,     \* the next id generateSessionId returns
  req,        \* the requests in flight: request -> handler state
  nreq,       \* number of requests handled so far
  storage     \* whether fs calls succeed: in the session directory, in the image
              \* directory; and whether SESSION_PERSIST enables persistence

vars == <<now, imageMode, sessions, heap, files, imgFiles, nextId, req, nreq, storage>>

\* the handlers that can be in flight: one, or two in ConcurrentSpec
OneRequest == {1}
TwoRequests == {1, 2}
\* the session id both handlers of ConcurrentSpec are called with: the one on disk
ConcurrentSessionIds == {1}
Reqs == DOMAIN req

\* Map.set / property write on a function with a growing domain
Put(f, k, v) == [x \in (DOMAIN f) \cup {k} |-> IF x = k THEN v ELSE f[x]]
\* Map.delete / unlink
Remove(f, ks) == [x \in (DOMAIN f) \ ks |-> f[x]]

(* --------------------------- durable storage --------------------------- *)
\* a config that reports persistence as enabled whatever SESSION_PERSIST says
sessionPersistEnabled_AlwaysOn == TRUE

\* config.sessionPersistEnabled: SESSION_PERSIST !== "0" (the default)
sessionPersistEnabled ==
  storage.persist

\* the fs calls on sessions/ and on images/ succeed; when they throw, every
\* caller catches, logs and goes on (existsSync answers false)
RecordsUsable == sessionPersistEnabled /\ storage.records
ImagesUsable == sessionPersistEnabled /\ storage.images
\* a storage whose calls all succeed
StorageWorks == [records |-> TRUE, images |-> TRUE, persist |-> TRUE]

\* getSessionFilePath(sessionId): path.join normalises the name it is given
getSessionFilePath(sessionId) == PathId(sessionId)
\* getSessionImagePath(sessionId, "last")
getSessionImagePath(sessionId) == <<PathId(sessionId), "last", 0>>
\* path.join(config.sessionImagesDir, `${sessionId}_msg_${refKey}.png`)
MsgImagePath(sessionId, k) == <<sessionId, "msg", k>>

\* the image_url parts extractMessageImages moves to files
IsExtractable(part) ==
  part.type = "image_url" /\ part.url.isData /\ parseDataUrl(part.url) # Null

RECURSIVE ExtractedOfParts(_)
ExtractedOfParts(ps) ==
  IF ps = <<>> THEN <<>>
  ELSE (IF IsExtractable(Head(ps)) THEN <<parseDataUrl(Head(ps).url)[1]>> ELSE <<>>)
       \o ExtractedOfParts(Tail(ps))

RECURSIVE ExtractedOfMessages(_)
ExtractedOfMessages(ms) ==
  IF ms = <<>> THEN <<>>
  ELSE (IF Head(ms).content.isArray THEN ExtractedOfParts(Head(ms).content.parts) ELSE <<>>)
       \o ExtractedOfMessages(Tail(ms))

\* extractMessageImages: imageIndex counts the extracted parts in message order
extractMessageImages(sessionId, messages) ==
  LET extracted == ExtractedOfMessages(messages)
      IndexOf(i, j) ==
        Len(ExtractedOfMessages(SubSeq(messages, 1, i - 1)))
        + Len(ExtractedOfParts(SubSeq(messages[i].content.parts, 1, j - 1)))
      ProcessedPart(i, j) ==
        LET part == messages[i].content.parts[j]
        IN IF IsExtractable(part) THEN RefPart(IndexOf(i, j)) ELSE part
      ProcessedMessage(i) ==
        LET msg == messages[i]
        IN IF ~msg.content.isArray THEN msg
           ELSE Message(msg.role,
                  ArrayContent([j \in 1..Len(msg.content.parts) |-> ProcessedPart(i, j)]))
  IN IF ImagesUsable
     THEN [processedMessages |-> [i \in 1..Len(messages) |-> ProcessedMessage(i)],
           imageRefs |-> [k \in 1..Len(extracted) |->
                            [path |-> MsgImagePath(sessionId, k - 1),
                             mimeType |-> extracted[k].mimeType]],
           written |-> [k \in 1..Len(extracted) |-> Base64Decode(extracted[k].base64)]]
     \* writeFileSync throws: the part is kept as it is and gets no reference
     ELSE [processedMessages |-> messages, imageRefs |-> <<>>, written |-> <<>>]

\* saveImageToFile(sessionId, image): the reference it returns
saveImageToFile(sessionId, image) ==
  IF ~ImagesUsable \/ image = Null THEN Null
  ELSE Some([path |-> getSessionImagePath(sessionId), mimeType |-> image[1].mimeType])

\* the image directory after saveSessionToFile(session)
SavedImages(session, images) ==
  LET messages == SliceLast(session.messages, SESSION_MAX_HISTORY * 2)
      ex == extractMessageImages(session.id, messages)
      names == {MsgImagePath(session.id, k - 1) : k \in 1..Len(ex.written)}
      withMsgs == [x \in (DOMAIN images) \cup names |->
                     IF x \in names THEN ex.written[x[3] + 1] ELSE images[x]]
  IN IF ~ImagesUsable THEN images
     ELSE IF session.lastImage = Null THEN withMsgs
     ELSE Put(withMsgs, getSessionImagePath(session.id),
              Base64Decode(session.lastImage[1].base64))

\* the record saveSessionToFile(session) writes to sessions/{id}.json
SavedRecord(session) ==
  LET messages == SliceLast(session.messages, SESSION_MAX_HISTORY * 2)
      ex == extractMessageImages(session.id, messages)
  IN [id |-> session.id,
      messages |-> ex.processedMessages,
      messageImageRefs |-> ex.imageRefs,
      lastImageRef |-> saveImageToFile(session.id, session.lastImage),
      createdAt |-> session.createdAt,
      lastUsedAt |-> session.lastUsedAt]

\* the session directory after saveSessionToFile(session)
SavedFiles(session, fs) ==
  IF ~RecordsUsable THEN fs ELSE Put(fs, session.id, SavedRecord(session))

\* loadImageFromFile ignoring the mime type the reference records
loadImageFromFile_AlwaysPng(imageRef, images) ==
  IF ImagesUsable /\ imageRef.path \in DOMAIN images
  THEN Some([base64 |-> Base64Encode(images[imageRef.path]), mimeType |-> "image/png"])
  ELSE Null

\* loadImageFromFile(imageRef)
loadImageFromFile(imageRef, images) ==
  IF ImagesUsable /\ imageRef.path \in DOMAIN images
  THEN Some([base64 |-> Base64Encode(images[imageRef.path]),
             mimeType |-> IF imageRef.mimeType = "" THEN "image/png" ELSE imageRef.mimeType])
  ELSE Null

\* restoreMessageImages(sessionData)
restoreMessageImages(messages, refs, images) ==
  LET RestoredPart(part) ==
        IF part.type = "image_url" /\ part.refKey >= 0
        THEN IF part.refKey + 1 \in DOMAIN refs
                /\ loadImageFromFile(refs[part.refKey + 1], images) # Null
             THEN LET image == loadImageFromFile(refs[part.refKey + 1], images)[1]
                  IN ImagePart(DataUrl(image.mimeType, image.base64))
             ELSE ImagePart(part.url)
        ELSE part
      RestoredMessage(msg) ==
        IF ~msg.content.isArray THEN msg
        ELSE Message(msg.role,
               ArrayContent([j \in 1..Len(msg.content.parts) |->
                               RestoredPart(msg.content.parts[j])]))
  IN [i \in 1..Len(messages) |-> RestoredMessage(messages[i])]

\* loadSessionFromFile(sessionId): null or the session object it builds
loadSessionFromFile(sessionId, fs, images) ==
  IF ~RecordsUsable \/ getSessionFilePath(sessionId) \notin DOMAIN fs THEN Null
  ELSE LET data == fs[getSessionFilePath(sessionId)]
       IN Some([id |-> data.id,
                messages |-> IF Len(data.messageImageRefs) > 0
                             THEN restoreMessageImages(data.messages,
                                                       data.messageImageRefs, images)
                             ELSE data.messages,
                lastImage |-> IF data.lastImageRef # Null
                              THEN loadImageFromFile(data.lastImageRef[1], images)
                              ELSE Null,
                createdAt |-> data.createdAt,
                lastUsedAt |-> data.lastUsedAt])

\* deleteSessionFile(sessionId): the record is unlinked
DeletedFiles(sessionId, fs) ==
  IF ~RecordsUsable THEN fs ELSE Remove(fs, {getSessionFilePath(sessionId)})
\* the image files deleteSessionFile(sessionId) unlinks: the one at
\* getSessionImagePath(sessionId) and every file whose name starts `${sessionId}_`
UnlinkedBy(sessionId, x) == x = getSessionImagePath(sessionId) \/ x[1] = sessionId
DeletedImages(sessionId, images) ==
  IF ~ImagesUsable THEN images
  ELSE Remove(images, {x \in DOMAIN images : UnlinkedBy(sessionId, x)})

(* ---------------------------- session API ------------------------------ *)
\* session.messages after the push calls of updateSession, before the trim: the
\* array every params.historyMessages that references it shows
PushedMessages(session, userContent, images) ==
  LET withUser == Append(session.messages, Message("user", userContent))
  IN IF Len(images) > 0
     THEN Append(withUser,
            Message("assistant",
              ArrayContent(<<TextPart(GeneratedText(Len(images))),
                             ImagePart(DataUrl(images[1].mimeType, images[1].base64))>>)))
     ELSE withUser

\* the lowest free heap address (a new object)
NewObj(h) == CHOOSE o \in Objs \ DOMAIN h : \A p \in Objs \ DOMAIN h : o <= p

\* now - lastUsedAt > ttl, the expiry test of cleanupExpiredSessions and getOrCreateSession
IsExpired(lastUsedAt, t) == t - lastUsedAt > SessionTtl

\* getOrCreateSession step 1: the id is in the Map
MemoryHit(sessionId) == sessionId # NullId /\ sessionId \in DOMAIN sessions

\* getOrCreateSession step 2: a record on disk that has not expired
FileHit(sessionId) ==
  /\ sessionId # NullId
  /\ ~MemoryHit(sessionId)
  /\ loadSessionFromFile(sessionId, files, imgFiles) # Null
  /\ ~IsExpired(loadSessionFromFile(sessionId, files, imgFiles)[1].lastUsedAt, now)

\* getOrCreateSession stamping a session found in the Map with its creation time
getOrCreateSession_RewindsOnHit(sessionId) ==
  IF MemoryHit(sessionId)
  THEN LET o == sessions[sessionId]
       IN [sessions |-> sessions,
           heap |-> [heap EXCEPT ![o].lastUsedAt = heap[o].createdAt],
           files |-> files, imgFiles |-> imgFiles, nextId |-> nextId, obj |-> o]
  ELSE IF FileHit(sessionId)
  THEN LET o == NewObj(heap)
           fileSession == loadSessionFromFile(sessionId, files, imgFiles)[1]
       IN [sessions |-> Put(sessions, sessionId, o),
           heap |-> Put(heap, o, [fileSession EXCEPT !.lastUsedAt = now]),
           files |-> files, imgFiles |-> imgFiles, nextId |-> nextId, obj |-> o]
  ELSE LET o == NewObj(heap)
           \* an expired record is deleted before the new session is created
           stale == sessionId # NullId
                    /\ loadSessionFromFile(sessionId, files, imgFiles) # Null
           files1 == IF stale THEN DeletedFiles(sessionId, files) ELSE files
           imgs1 == IF stale THEN DeletedImages(sessionId, imgFiles) ELSE imgFiles
           newSession == [id |-> nextId, messages |-> <<>>, lastImage |-> Null,
                          createdAt |-> now, lastUsedAt |-> now]
       IN [sessions |-> Put(sessions, newSession.id, o),
           heap |-> Put(heap, o, newSession),
           files |-> SavedFiles(newSession, files1),
           imgFiles |-> SavedImages(newSession, imgs1),
           nextId |-> nextId + 1, obj |-> o]

\* getOrCreateSession taking a call without id as a call for the latest session
getOrCreateSession_ResumesLatest(sessionId) ==
  IF MemoryHit(sessionId) \/ (sessionId = NullId /\ DOMAIN sessions # {})
  THEN LET latest == CHOOSE id \in DOMAIN sessions : \A other \in DOMAIN sessions : other <= id
           o == IF sessionId = NullId THEN sessions[latest] ELSE sessions[sessionId]
       IN [sessions |-> sessions,
           heap |-> [heap EXCEPT ![o].lastUsedAt = now],
           files |-> files, imgFiles |-> imgFiles, nextId |-> nextId, obj |-> o]
  ELSE IF FileHit(sessionId)
  THEN LET o == NewObj(heap)
           fileSession == loadSessionFromFile(sessionId, files, imgFiles)[1]
       IN [sessions |-> Put(sessions, sessionId, o),
           heap |-> Put(heap, o, [fileSession EXCEPT !.lastUsedAt = now]),
           files |-> files, imgFiles |-> imgFiles, nextId |-> nextId, obj |-> o]
  ELSE LET o == NewObj(heap)
           \* an expired record is deleted before the new session is created
           stale == sessionId # NullId
                    /\ loadSessionFromFile(sessionId, files, imgFiles) # Null
           files1 == IF stale THEN DeletedFiles(sessionId, files) ELSE files
           imgs1 == IF stale THEN DeletedImages(sessionId, imgFiles) ELSE imgFiles
           newSession == [id |-> nextId, messages |-> <<>>, lastImage |-> Null,
                          createdAt |-> now, lastUsedAt |-> now]
       IN [sessions |-> Put(sessions, newSession.id, o),
           heap |-> Put(heap, o, newSession),
           files |-> SavedFiles(newSession, files1),
           imgFiles |-> SavedImages(newSession, imgs1),
           nextId |-> nextId + 1, obj |-> o]

\* getOrCreateSession(sessionId): the store after the call and the object returned
getOrCreateSession(sessionId) ==
  IF MemoryHit(sessionId)
  THEN LET o == sessions[sessionId]
       IN [sessions |-> sessions,
           heap |-> [heap EXCEPT ![o].lastUsedAt = now],
           files |-> files, imgFiles |-> imgFiles, nextId |-> nextId, obj |-> o]
  ELSE IF FileHit(sessionId)
  THEN LET o == NewObj(heap)
           fileSession == loadSessionFromFile(sessionId, files, imgFiles)[1]
       IN [sessions |-> Put(sessions, sessionId, o),
           heap |-> Put(heap, o, [fileSession EXCEPT !.lastUsedAt = now]),
           files |-> files, imgFiles |-> imgFiles, nextId |-> nextId, obj |-> o]
  ELSE LET o == NewObj(heap)
           \* an expired record is deleted before the new session is created
           stale == sessionId # NullId
                    /\ loadSessionFromFile(sessionId, files, imgFiles) # Null
           files1 == IF stale THEN DeletedFiles(sessionId, files) ELSE files
           imgs1 == IF stale THEN DeletedImages(sessionId, imgFiles) ELSE imgFiles
           newSession == [id |-> nextId, messages |-> <<>>, lastImage |-> Null,
                          createdAt |-> now, lastUsedAt |-> now]
       IN [sessions |-> Put(sessions, newSession.id, o),
           heap |-> Put(heap, o, newSession),
           files |-> SavedFiles(newSession, files1),
           imgFiles |-> SavedImages(newSession, imgs1),
           nextId |-> nextId + 1, obj |-> o]

\* what getOrCreateSession needs from the bounded model: a free address, a free id
CanResolve(sessionId) ==
  \/ MemoryHit(sessionId)
  \/ FileHit(sessionId) /\ Objs \ DOMAIN heap # {}
  \/ ~FileHit(sessionId) /\ Objs \ DOMAIN heap # {} /\ nextId <= MaxIds

isNewSession(sessionId, session) == sessionId = NullId \/ sessionId # session.id

\* updateSession taking the last image of the batch, and none from an empty batch
updateSession_LastOfBatch(session, userContent, images) ==
  LET withUser == Append(session.messages, Message("user", userContent))
      withAssistant ==
        Append(withUser,
          Message("assistant",
            ArrayContent(<<TextPart(GeneratedText(Len(images)))>>)))
  IN [session EXCEPT
        !.messages = SliceLast(withAssistant, SESSION_MAX_HISTORY * 2),
        !.lastImage = IF Len(images) > 0 THEN Some(images[Len(images)]) ELSE Null,
        !.lastUsedAt = now]

\* updateSession that keeps in memory the messages it wrote to the record,
\* with the references in place of the images
updateSession_KeepsSavedCopy(session, userContent, images) ==
  LET withUser == Append(session.messages, Message("user", userContent))
      withAssistant ==
        IF Len(images) > 0
        THEN Append(withUser,
               Message("assistant",
                 ArrayContent(<<TextPart(GeneratedText(Len(images))),
                                ImagePart(DataUrl(images[1].mimeType, images[1].base64))>>)))
        ELSE withUser
      messages == SliceLast(withAssistant, SESSION_MAX_HISTORY * 2)
  IN [session EXCEPT
        !.messages = extractMessageImages(session.id, messages).processedMessages,
        !.lastImage = IF Len(images) > 0 THEN Some(images[1]) ELSE session.lastImage,
        !.lastUsedAt = now]

\* updateSession that keeps one message less than the cap
updateSession_TrimsOdd(session, userContent, images) ==
  LET pushed == PushedMessages(session, userContent, images)
  IN [session EXCEPT
        !.messages = IF Len(pushed) > SESSION_MAX_HISTORY * 2
                     THEN SliceLast(pushed, SESSION_MAX_HISTORY * 2 - 1)
                     ELSE pushed,
        !.lastImage = IF Len(images) > 0 THEN Some(images[1]) ELSE session.lastImage,
        !.lastUsedAt = now]

\* updateSession that never drops a message
updateSession_NoTrim(session, userContent, images) ==
  LET withUser == Append(session.messages, Message("user", userContent))
      withAssistant ==
        IF Len(images) > 0
        THEN Append(withUser,
               Message("assistant",
                 ArrayContent(<<TextPart(GeneratedText(Len(images))),
                                ImagePart(DataUrl(images[1].mimeType, images[1].base64))>>)))
        ELSE withUser
  IN [session EXCEPT
        !.messages = withAssistant,
        !.lastImage = IF Len(images) > 0 THEN Some(images[1]) ELSE session.lastImage,
        !.lastUsedAt = now]

\* updateSession(session, userContent, images): the session object after the call
updateSession(session, userContent, images) ==
  LET withUser == Append(session.messages, Message("user", userContent))
      firstImage == images[1]
      withAssistant ==
        IF Len(images) > 0
        THEN Append(withUser,
               Message("assistant",
                 ArrayContent(<<TextPart(GeneratedText(Len(images))),
                                ImagePart(DataUrl(firstImage.mimeType, firstImage.base64))>>)))
        ELSE withUser
  IN [session EXCEPT
        !.messages = IF Len(withAssistant) > SESSION_MAX_HISTORY * 2
                     THEN SliceLast(withAssistant, SESSION_MAX_HISTORY * 2)
                     ELSE withAssistant,
        !.lastImage = IF Len(images) > 0 THEN Some(firstImage) ELSE session.lastImage,
        !.lastUsedAt = now]

(* -------------------------- upstream adapter --------------------------- *)
\* errors thrown: class name, HTTP status (HttpError only), what failed
HttpError(status) == [name |-> "HttpError", status |-> status, cause |-> "http"]
PlainError(cause) == [name |-> "Error", status |-> 0, cause |-> cause]
NoError == [name |-> "", status |-> 0, cause |-> ""]

\* what a strategy function does with one upstream exchange: return images or throw
Returned(images) == [ok |-> TRUE, images |-> images, error |-> NoError]
Thrown(error) == [ok |-> FALSE, images |-> <<>>, error |-> error]

\* a batch of len images, the pool taken in turn from position first
BatchOf(len, first) ==
  [k \in 1..len |-> ImagePool[((first + k) % Len(ImagePool)) + 1]]

\* what the upstream endpoint can answer to one call:
\*   a 2xx response whose body parses to `images` recognizable images,
\*   a non-2xx response, a timeout (AbortError), a network failure,
\*   a 2xx response naming an image URL whose download fails
HttpStatuses == {400, 404, 500}
OkResponses ==
  {[kind |-> "response", status |-> 200, images |-> BatchOf(len, first)] :
     len \in 0..MaxBatch, first \in 1..Len(ImagePool)}
ErrorResponses ==
  {[kind |-> "response", status |-> st, images |-> <<>>] : st \in HttpStatuses}
TransportFailures ==
  {[kind |-> k, status |-> 0, images |-> <<>>] : k \in {"timeout", "network"}}
UrlFailures == {[kind |-> "urlfetch", status |-> 200, images |-> <<>>]}

\* fetchWithTimeout: the transport failures become plain Errors
fetchWithTimeout(answer) ==
  IF answer.kind = "timeout" THEN Thrown(PlainError("timeout"))
  ELSE IF answer.kind = "network" THEN Thrown(PlainError("network"))
  ELSE Returned(answer.images)

ResOk(answer) == answer.status >= 200 /\ answer.status <= 299

(* response bodies and their parsers *)
\* the URLs a response names, and the one whose download succeeds
UrlUp == RawString("http://up")
UrlDown == RawString("http://down")
UrlOther == RawString("file:///x")
\* url.startsWith("http")
StartsWithHttp(u) == ~u.isData /\ u.raw \in {UrlUp.raw, UrlDown.raw}

\* fetchUrlAsBase64(url): the bytes downloaded, re-encoded, with the
\* content-type of the response; a non-2xx answer or a transport failure throws
Downloaded == [base64 |-> "QQ==", mimeType |-> "image/png"]
fetchUrlAsBase64(u) ==
  IF u = UrlUp THEN Returned(<<Downloaded>>) ELSE Thrown(PlainError("urlfetch"))

\* `mimeType || "image/png"`
MimeOr(mime) == IF mime = "" THEN "image/png" ELSE mime

\* parts and items of a body: {inlineData: {data, mimeType}}, {inline_data:
\* {data, mime_type}}, {type: "image_url", image_url: {url}}, {text}
InlinePart(style, data, mime) ==
  [kind |-> style, data |-> data, mime |-> mime, url |-> RawString("")]
UrlPart(u) == [kind |-> "image_url", data |-> "", mime |-> "", url |-> u]
PlainPart == [kind |-> "text", data |-> "", mime |-> "", url |-> RawString("")]

\* two steps of a parser in sequence: a throw ends the parse
Then(first, second) ==
  IF ~first.ok THEN first
  ELSE IF ~second.ok THEN second
  ELSE Returned(first.images \o second.images)

\* the inner loop of parseGeminiResponse over the parts of one candidate
RECURSIVE PartsImages(_)
PartsImages(parts) ==
  IF parts = <<>> THEN <<>>
  ELSE LET part == Head(parts)
           found == IF part.kind \in {"inlineData", "inline_data"} /\ part.data # ""
                    THEN <<[base64 |-> part.data, mimeType |-> MimeOr(part.mime)]>>
                    ELSE <<>>
       IN found \o PartsImages(Tail(parts))

\* the outer loop of parseGeminiResponse over the candidates
RECURSIVE CandidatesImages(_)
CandidatesImages(candidates) ==
  IF candidates = <<>> THEN <<>>
  ELSE PartsImages(Head(candidates).parts) \o CandidatesImages(Tail(candidates))

\* parseGeminiResponse(json)
parseGeminiResponse(json) == CandidatesImages(json.candidates)

\* a URL of a body: a data URL is decoded, an http URL downloaded, anything
\* else is no image
UrlImages(u) ==
  IF parseDataUrl(u) # Null
  THEN Returned(<<[base64 |-> parseDataUrl(u)[1].base64,
                   mimeType |-> parseDataUrl(u)[1].mimeType]>>)
  ELSE IF StartsWithHttp(u) THEN fetchUrlAsBase64(u)
  ELSE Returned(<<>>)

\* the loop over message.content of one choice
RECURSIVE ContentImages(_)
ContentImages(content) ==
  IF content = <<>> THEN Returned(<<>>)
  ELSE LET item == Head(content)
           found ==
             IF item.kind = "inline_data" /\ item.data # ""
             THEN Returned(<<[base64 |-> item.data, mimeType |-> MimeOr(item.mime)]>>)
             ELSE IF item.kind = "image_url" /\ item.url # RawString("")
             THEN UrlImages(item.url)
             ELSE Returned(<<>>)
       IN IF found.ok THEN Then(found, ContentImages(Tail(content))) ELSE found

\* the loop over message.images of one choice
RECURSIVE MessageImages(_)
MessageImages(messageImages) ==
  IF messageImages = <<>> THEN Returned(<<>>)
  ELSE LET imageUrl == Head(messageImages)
           found == IF imageUrl = RawString("") THEN Returned(<<>>) ELSE UrlImages(imageUrl)
       IN IF found.ok THEN Then(found, MessageImages(Tail(messageImages))) ELSE found

\* the loop over json.choices: per choice its content, then its images
RECURSIVE ChoicesImages(_)
ChoicesImages(choices) ==
  IF choices = <<>> THEN Returned(<<>>)
  ELSE LET choice == Head(choices)
           ofChoice ==
             IF ~choice.hasMessage THEN Returned(<<>>)
             ELSE LET ofContent == ContentImages(choice.content)
                  IN IF ofContent.ok
                     THEN Then(ofContent, MessageImages(choice.images))
                     ELSE ofContent
       IN IF ofChoice.ok THEN Then(ofChoice, ChoicesImages(Tail(choices))) ELSE ofChoice

\* parseOpenAICompatibleResponse that stops at the first shape that has images
parseOpenAICompatibleResponse_FirstShape(json) ==
  IF parseGeminiResponse(json) # <<>> THEN Returned(parseGeminiResponse(json))
  ELSE LET contents ==
             ChoicesImages([k \in 1..Len(json.choices) |->
                              [json.choices[k] EXCEPT !.images = <<>>]])
       IN IF ~contents.ok \/ contents.images # <<>> THEN contents
          ELSE ChoicesImages([k \in 1..Len(json.choices) |->
                                [json.choices[k] EXCEPT !.content = <<>>]])

\* parseOpenAICompatibleResponse(json, timeoutMs)
parseOpenAICompatibleResponse(json) ==
  Then(Returned(parseGeminiResponse(json)), ChoicesImages(json.choices))

\* the upstream answer a 2xx chat-completions response with this body amounts to
AnswerOfBody(json) ==
  LET parsed == parseOpenAICompatibleResponse(json)
  IN IF parsed.ok
     THEN [kind |-> "response", status |-> 200, images |-> parsed.images]
     ELSE [kind |-> "urlfetch", status |-> 200, images |-> <<>>]

generateImagesViaImagesApi(answer) ==
  IF ~fetchWithTimeout(answer).ok THEN fetchWithTimeout(answer)
  ELSE IF ~ResOk(answer) THEN Thrown(HttpError(answer.status))
  ELSE IF answer.kind = "urlfetch" THEN Thrown(PlainError("urlfetch"))
  ELSE IF Len(answer.images) = 0 THEN Thrown(PlainError("noimages"))
  ELSE Returned(answer.images)

generateImagesViaGeminiNative(answer) ==
  IF ~fetchWithTimeout(answer).ok THEN fetchWithTimeout(answer)
  ELSE IF ~ResOk(answer) THEN Thrown(HttpError(answer.status))
  ELSE IF Len(answer.images) = 0 THEN Thrown(PlainError("noimages"))
  ELSE Returned(answer.images)

\* generateImagesViaChatCompletions returning the empty list of a body without image
generateImagesViaChatCompletions_AllowsEmpty(answer) ==
  IF ~fetchWithTimeout(answer).ok THEN fetchWithTimeout(answer)
  ELSE IF ~ResOk(answer) THEN Thrown(HttpError(answer.status))
  ELSE IF answer.kind = "urlfetch" THEN Thrown(PlainError("urlfetch"))
  ELSE Returned(answer.images)

generateImagesViaChatCompletions(answer) ==
  IF ~fetchWithTimeout(answer).ok THEN fetchWithTimeout(answer)
  ELSE IF ~ResOk(answer) THEN Thrown(HttpError(answer.status))
  ELSE IF answer.kind = "urlfetch" THEN Thrown(PlainError("urlfetch"))
  ELSE IF Len(answer.images) = 0 THEN Thrown(PlainError("noimages"))
  ELSE Returned(answer.images)

\* the answers each route can give (the native parser follows no URL)
AnswersFor(strategy) ==
  IF strategy = "native"
  THEN OkResponses \cup ErrorResponses \cup TransportFailures
  ELSE OkResponses \cup ErrorResponses \cup TransportFailures \cup UrlFailures

\* every answer an upstream call can get, and the few ConcurrentSpec is run
\* with: one image, either of the pool, or a server error
Answers == OkResponses \cup ErrorResponses \cup TransportFailures \cup UrlFailures
ConcurrentAnswers ==
  {[kind |-> "response", status |-> 200, images |-> BatchOf(1, first)] :
     first \in 1..Len(ImagePool)}
    \cup {[kind |-> "response", status |-> 500, images |-> <<>>]}

StrategyCall(strategy, answer) ==
  CASE strategy = "images" -> generateImagesViaImagesApi(answer)
    [] strategy = "native" -> generateImagesViaGeminiNative(answer)
    [] OTHER -> generateImagesViaChatCompletions(answer)

\* where the adapter stands after an exchange: it issues another call, returns or throws
CallNext(strategy, i, out) ==
  [kind |-> "call", strategy |-> strategy, i |-> i, out |-> out, error |-> NoError]
Return(images) ==
  [kind |-> "return", strategy |-> "none", i |-> 0, out |-> images, error |-> NoError]
Throw(error) ==
  [kind |-> "throw", strategy |-> "none", i |-> 0, out |-> <<>>, error |-> error]

\* generateMultiple going on to the next turn after a failed call, and
\* returning what it has collected if the last turn failed
generateMultiple_SkipsFailures(a, res) ==
  LET out == IF res.ok THEN a.out \o res.images ELSE a.out
  IN IF Len(out) >= a.n \/ a.i + 1 >= a.n
     THEN IF Len(out) = 0 THEN Throw(res.error) ELSE Return(SliceFirst(out, a.n))
     ELSE CallNext(a.strategy, a.i + 1, out)

\* generateMultiple returning after its first batch
generateMultiple_FirstBatchOnly(a, res) ==
  IF ~res.ok THEN Throw(res.error)
  ELSE Return(SliceFirst(a.out \o res.images, a.n))

\* generateMultiple(generator, count): one turn of its loop, a = its locals
generateMultiple(a, res) ==
  IF ~res.ok THEN Throw(res.error)
  ELSE LET out == a.out \o res.images
       IN IF Len(out) >= a.n \/ a.i + 1 >= a.n
          THEN Return(SliceFirst(out, a.n))
          ELSE CallNext(a.strategy, a.i + 1, out)

\* generateWithFallback with chat-completions tried after native whatever native did
generateWithFallback_ChatAfterNative(a, res) ==
  CASE a.strategy = "images" ->
         IF res.ok THEN Return(res.images)
         ELSE IF res.error.name = "HttpError" /\ res.error.status \in {404, 400}
         THEN CallNext("native", 0, <<>>)
         ELSE Throw(res.error)
    [] a.strategy = "native" ->
         IF generateMultiple(a, res).kind = "call"
         THEN generateMultiple(a, res)
         ELSE CallNext("chat", 0, <<>>)
    [] OTHER -> generateMultiple(a, res)

\* generateWithFallback falling back on every failure of images-generation
generateWithFallback_AnyFailure(a, res) ==
  CASE a.strategy = "images" ->
         IF res.ok THEN Return(res.images) ELSE CallNext("native", 0, <<>>)
    [] a.strategy = "native" ->
         IF generateMultiple(a, res).kind = "throw"
         THEN CallNext("chat", 0, <<>>)
         ELSE generateMultiple(a, res)
    [] OTHER -> generateMultiple(a, res)

\* generateWithFallback with the two fallbacks in the other order
generateWithFallback_ChatFirst(a, res) ==
  CASE a.strategy = "images" ->
         IF res.ok THEN Return(res.images)
         ELSE IF res.error.name = "HttpError" /\ res.error.status \in {404, 400}
         THEN CallNext("chat", 0, <<>>)
         ELSE Throw(res.error)
    [] a.strategy = "chat" ->
         IF generateMultiple(a, res).kind = "throw"
         THEN CallNext("native", 0, <<>>)
         ELSE generateMultiple(a, res)
    [] OTHER -> generateMultiple(a, res)

\* generateWithFallback(params, count)
generateWithFallback(a, res) ==
  CASE a.strategy = "images" ->
         IF res.ok THEN Return(res.images)
         ELSE IF res.error.name = "HttpError" /\ res.error.status \in {404, 400}
         THEN CallNext("native", 0, <<>>)
         ELSE Throw(res.error)
    [] a.strategy = "native" ->
         IF generateMultiple(a, res).kind = "throw"
         THEN CallNext("chat", 0, <<>>)
         ELSE generateMultiple(a, res)
    [] OTHER -> generateMultiple(a, res)

\* config.imageMode values; anything else is handled as chat
ImageModes == {"gemini", "openai", "images", "auto", "chat"}

\* the route generateImages calls first
FirstStrategy(mode) ==
  CASE mode = "gemini" -> "native"
    [] mode \in {"openai", "images"} -> "images"
    [] mode = "auto" -> "images"
    [] OTHER -> "chat"

\* generateImages with the pinned images mode given the fallback chain of auto
generateImages_ImagesFallsBack(mode, a, res) ==
  CASE mode = "gemini" -> generateMultiple(a, res)
    [] mode \in {"openai", "images", "auto"} -> generateWithFallback(a, res)
    [] OTHER -> generateMultiple(a, res)

\* generateImages with the pinned native mode given the fallback to chat-completions
generateImages_GeminiFallsBack(mode, a, res) ==
  CASE mode = "gemini" ->
         IF a.strategy = "native" /\ generateMultiple(a, res).kind = "throw"
         THEN CallNext("chat", 0, <<>>)
         ELSE generateMultiple(a, res)
    [] mode \in {"openai", "images"} ->
         IF res.ok THEN Return(res.images) ELSE Throw(res.error)
    [] mode = "auto" -> generateWithFallback(a, res)
    [] OTHER -> generateMultiple(a, res)

\* generateImages(params), resumed with the outcome of the call it awaited
generateImages(mode, a, res) ==
  CASE mode = "gemini" -> generateMultiple(a, res)
    [] mode \in {"openai", "images"} ->
         IF res.ok THEN Return(res.images) ELSE Throw(res.error)
    [] mode = "auto" -> generateWithFallback(a, res)
    [] OTHER -> generateMultiple(a, res)

(* ------------------------------- sizes --------------------------------- *)
\* the size argument: absent, `${w}x${h}`, digits only, or any other text
NoSize == [form |-> "none", w |-> 0, h |-> 0]
SizeWxH(w, h) == [form |-> "WxH", w |-> w, h |-> h]
SizeDigits(n) == [form |-> "digits", w |-> n, h |-> 0]
SizeText == [form |-> "text", w |-> 0, h |-> 0]

\* DEFAULTS.SIZE
DefaultSize == SizeWxH(1024, 1024)

\* parseSize(raw): the default when absent, NxN for digits only
parseSize(raw) ==
  IF raw.form = "none" THEN DefaultSize
  ELSE IF raw.form = "digits" THEN SizeWxH(raw.w, raw.w)
  ELSE raw

\* the ratioMap of sizeToAspectRatio, in its order
ratioMap ==
  <<[num |-> 1, den |-> 1, value |-> "1:1"],
    [num |-> 16, den |-> 9, value |-> "16:9"],
    [num |-> 9, den |-> 16, value |-> "9:16"],
    [num |-> 4, den |-> 3, value |-> "4:3"],
    [num |-> 3, den |-> 4, value |-> "3:4"],
    [num |-> 3, den |-> 2, value |-> "3:2"],
    [num |-> 2, den |-> 3, value |-> "2:3"]>>

Abs(x) == IF x < 0 THEN 0 - x ELSE x

\* Math.abs(w / h - num / den) < 0.1, both sides multiplied by 10 * h * den;
\* with h = 0 the quotient is Infinity or NaN and the test is false
WithinTolerance(w, h, e) == 10 * Abs(w * e.den - e.num * h) < h * e.den

\* sizeToAspectRatio(size): the first entry of ratioMap within the tolerance
sizeToAspectRatio(size) ==
  IF size.form # "WxH" THEN "1:1"
  ELSE LET hits == {k \in 1..Len(ratioMap) : WithinTolerance(size.w, size.h, ratioMap[k])}
       IN IF hits = {} THEN "1:1"
          ELSE ratioMap[CHOOSE k \in hits : \A j \in hits : k <= j].value

(* --------------------------- request handler --------------------------- *)
\* parseIntOr(value, fallback) on the numbers and non-numbers a caller passes
NotANumber == 0 - 1000
parseIntOr(value, fallback) == IF value = NotANumber THEN fallback ELSE value
\* clampInt(value, min, max)
clampInt(value, min, max) ==
  IF value < min THEN min ELSE IF value > max THEN max ELSE value

\* String(raw ?? "").trim(): a missing prompt is "", a blank one trims to ""
parsePrompt(raw) == IF raw = " " THEN "" ELSE raw

\* isValidBase64(str): decodes to something and re-encodes to itself
\* isValidBase64 without the decode and re-encode test
isValidBase64_AnyText(u) == ~u.isData /\ u.raw # ""

isValidBase64(u) ==
  /\ ~u.isData
  /\ u.raw # ""
  /\ Base64Decode(u.raw) # ""
  /\ Base64Encode(Base64Decode(u.raw)) = u.raw

\* `if (imageArg)`: the argument is there and is not the empty string
Truthy(imageArg) == imageArg # Null /\ imageArg[1] # RawString("")

\* parseInputImage falling back on the image of the last turn when the
\* argument is no image
parseInputImage_FallsBack(imageArg, isNew, session) ==
  IF Truthy(imageArg) /\ parseDataUrl(imageArg[1]) # Null
  THEN Some([base64 |-> parseDataUrl(imageArg[1])[1].base64,
             mimeType |-> parseDataUrl(imageArg[1])[1].mimeType])
  ELSE IF Truthy(imageArg) /\ isValidBase64(imageArg[1])
  THEN Some([base64 |-> imageArg[1].raw, mimeType |-> "image/png"])
  ELSE IF ~isNew /\ session.lastImage # Null THEN session.lastImage
  ELSE Null

\* parseInputImage that never falls back on the image of the last turn
parseInputImage_NoLastImage(imageArg, isNew, session) ==
  IF Truthy(imageArg)
  THEN IF parseDataUrl(imageArg[1]) # Null
       THEN Some([base64 |-> parseDataUrl(imageArg[1])[1].base64,
                  mimeType |-> parseDataUrl(imageArg[1])[1].mimeType])
       ELSE IF isValidBase64(imageArg[1])
       THEN Some([base64 |-> imageArg[1].raw, mimeType |-> "image/png"])
       ELSE Null
  ELSE Null

\* parseInputImage(args, isNew, session)
parseInputImage(imageArg, isNew, session) ==
  IF Truthy(imageArg)
  THEN IF parseDataUrl(imageArg[1]) # Null
       THEN Some([base64 |-> parseDataUrl(imageArg[1])[1].base64,
                  mimeType |-> parseDataUrl(imageArg[1])[1].mimeType])
       ELSE IF isValidBase64(imageArg[1])
       THEN Some([base64 |-> imageArg[1].raw, mimeType |-> "image/png"])
       ELSE Null
  ELSE IF ~isNew /\ session.lastImage # Null THEN session.lastImage
  ELSE Null

\* the result handed back to the MCP client
NoResult == [status |-> "none", images |-> <<>>, sessionId |-> NullId, error |-> NoError]
OkResult(images, sessionId) ==
  [status |-> "ok", images |-> images, sessionId |-> sessionId, error |-> NoError]
\* buildErrorResponse(err), or the isError result of an argument check
ErrorResult(error) ==
  [status |-> "error", images |-> <<>>, sessionId |-> NullId, error |-> error]

\* what one strategy ended with, as seen by generateImages
NotTried == [state |-> "none", images |-> <<>>, error |-> NoError]
StrategyReturned(images) == [state |-> "returned", images |-> images, error |-> NoError]
StrategyThrew(error) == [state |-> "threw", images |-> <<>>, error |-> error]

Strategies == {"images", "native", "chat"}

\* a response body: json.candidates and json.choices, [] when absent
Body(candidates, choices) == [candidates |-> candidates, choices |-> choices]
NoBody == Body(<<>>, <<>>)
\* a choice: its message, message.content when it is an array, message.images
Choice(content, images) == [hasMessage |-> TRUE, content |-> content, images |-> images]
NoMessage == [hasMessage |-> FALSE, content |-> <<>>, images |-> <<>>]

\* a request slot: the handler's locals and the upstream calls it has issued
IdleReq ==
  [pc |-> "idle", sessionId |-> NullId, obj |-> 0, isNew |-> FALSE, prompt |-> "",
   imageArg |-> Null, inputImage |-> Null, rawN |-> NotANumber, n |-> 0,
   size |-> NoSize, aspectRatio |-> "", strategy |-> "none", i |-> 0, out |-> <<>>,
   calls |-> [s \in Strategies |-> 0],
   sizes |-> {},
   threw |-> [s \in Strategies |-> 0],
   body |-> NoBody,
   listing |-> <<>>,
   historyMessages |-> <<>>,
   sent |-> Null,
   outcome |-> [s \in Strategies |-> NotTried],
   result |-> NoResult]

\* the arguments a caller passes
Prompts == {"", " ", "make it blue"}
ImageArgs ==
  {Null, Some(DataUrl(ImgB.mimeType, ImgB.base64)), Some(RawString(ImgA.base64)),
   Some(RawString("not an image")), Some(RawString(""))}
\* no image argument
NoImageArg == {Null}
\* the size arguments: absent, text, digits, and every WxH up to MaxSide
SizeArgs ==
  {NoSize, SizeText}
    \cup {SizeDigits(k) : k \in 1..MaxSide}
    \cup {SizeWxH(w, h) : w \in 0..MaxSide, h \in 0..MaxSide}
\* no size argument
NoSizeArg == {NoSize}
SessionIdArgs == {NullId, UnknownId} \cup 1..(nextId - 1)
\* the session_id strings that name the files of a session under another name
AliasArgs == {Alias(id) : id \in 1..(nextId - 1)}
RawCounts == {NotANumber} \cup (MinCount - 1)..(MaxCount + 1)
\* the mode (the default of config.imageMode) and the counts the full system is explored with
SystemModes == {"gemini"}
SystemCounts == MinCount..MaxSystemCount

\* session objects still referenced: by the Map or by a handler awaiting a call
Collect(h, map, rq) ==
  LET live == {map[k] : k \in DOMAIN map}
              \cup {rq[r].obj : r \in {x \in DOMAIN rq : rq[x].pc = "awaiting"}}
  IN [o \in (DOMAIN h) \cap live |-> h[o]]

\* handleGenerateImage resolving the session before it looks at the prompt
RejectPrompt_AfterSession(r, maxRequests) ==
  /\ req[r].pc \in {"idle", "done"}
  /\ nreq < maxRequests
  /\ \E prompt \in Prompts, sessionId \in SessionIdArgs :
       /\ parsePrompt(prompt) = ""
       /\ CanResolve(sessionId)
       /\ LET st == getOrCreateSession(sessionId)
              rq == [req EXCEPT ![r] =
                       [IdleReq EXCEPT !.pc = "done", !.prompt = prompt,
                                       !.result = ErrorResult(PlainError("prompt"))]]
          IN /\ req' = rq
             /\ sessions' = st.sessions
             /\ heap' = Collect(st.heap, st.sessions, rq)
             /\ files' = st.files
             /\ imgFiles' = st.imgFiles
             /\ nextId' = st.nextId
  /\ nreq' = nreq + 1
  /\ UNCHANGED <<now, imageMode, storage>>

\* handleGenerateImage with an empty prompt: an error result, nothing else
RejectPrompt(r, maxRequests) ==
  /\ req[r].pc \in {"idle", "done"}
  /\ nreq < maxRequests
  /\ \E prompt \in Prompts :
       /\ parsePrompt(prompt) = ""
       /\ req' = [req EXCEPT ![r] =
                    [IdleReq EXCEPT !.pc = "done", !.prompt = prompt,
                                    !.result = ErrorResult(PlainError("prompt"))]]
  /\ nreq' = nreq + 1
  /\ UNCHANGED <<now, imageMode, sessions, heap, files, imgFiles, nextId, storage>>

\* the history an upstream call of the strategy carries: the array
\* params.historyMessages references, as it is when the call is built; the
\* images API sends the prompt only
HistorySent(strategy, historyMessages) ==
  IF strategy \in {"native", "chat"} THEN Some(historyMessages) ELSE Null

\* params.historyMessages is session.messages itself, not a copy: it is the
\* array of session object obj until updateSession replaces that array by a
\* slice, and an array that was replaced is longer than the cap
SharesArray(rq, obj) ==
  rq.pc = "awaiting" /\ rq.obj = obj /\ Len(rq.historyMessages) <= SESSION_MAX_HISTORY * 2

\* the requests after updateSession(session, userContent, images) pushed its
\* messages: every handler in flight that references the array sees them
Pushed(rq, session, obj, userContent, images) ==
  [q \in DOMAIN rq |->
     IF SharesArray(rq[q], obj)
     THEN [rq[q] EXCEPT !.historyMessages = PushedMessages(session, userContent, images)]
     ELSE rq[q]]

\* handleGenerateImage up to its first await: the session is resolved, the input
\* image chosen, and generateImages issues the first upstream call
HandleGenerateImage(r, sessionIds, rawCounts, imageArgs, sizeArgs, maxRequests) ==
  /\ req[r].pc \in {"idle", "done"}
  /\ nreq < maxRequests
  /\ \E prompt \in Prompts, sessionId \in sessionIds,
        imageArg \in imageArgs, rawN \in rawCounts, rawSize \in sizeArgs :
       /\ parsePrompt(prompt) # ""
       /\ CanResolve(sessionId)
       /\ LET st == getOrCreateSession(sessionId)
              session == st.heap[st.obj]
              isNew == isNewSession(sessionId, session)
              n == clampInt(parseIntOr(rawN, 1), MinCount, MaxCount)
              first == FirstStrategy(imageMode)
              rq == [req EXCEPT ![r] =
                       [IdleReq EXCEPT
                          !.pc = "awaiting", !.sessionId = sessionId, !.obj = st.obj,
                          !.isNew = isNew, !.prompt = parsePrompt(prompt),
                          !.imageArg = imageArg,
                          !.inputImage = parseInputImage(imageArg, isNew, session),
                          !.rawN = rawN, !.n = n,
                          !.size = parseSize(rawSize),
                          !.aspectRatio = IF first = "native"
                                          THEN sizeToAspectRatio(parseSize(rawSize))
                                          ELSE "", !.strategy = first,
                          !.historyMessages = session.messages,
                          !.sent = HistorySent(first, session.messages),
                          !.calls = [IdleReq.calls EXCEPT ![first] = 1]]]
          IN /\ req' = rq
             /\ sessions' = st.sessions
             /\ heap' = Collect(st.heap, st.sessions, rq)
             /\ files' = st.files
             /\ imgFiles' = st.imgFiles
             /\ nextId' = st.nextId
  /\ nreq' = nreq + 1
  /\ UNCHANGED <<now, imageMode, storage>>

\* the locals of generateImages for request r
Adapter(r) == [strategy |-> req[r].strategy, i |-> req[r].i, out |-> req[r].out, n |-> req[r].n]

\* how the strategy that was called ended, if this exchange ended it
OutcomeAfter(r, res) ==
  LET a == Adapter(r)
      ended ==
        IF a.strategy = "images"
        THEN IF res.ok THEN StrategyReturned(res.images) ELSE StrategyThrew(res.error)
        ELSE IF generateMultiple(a, res).kind = "return"
        THEN StrategyReturned(generateMultiple(a, res).out)
        ELSE IF generateMultiple(a, res).kind = "throw"
        THEN StrategyThrew(res.error)
        ELSE NotTried
  IN [req[r].outcome EXCEPT ![a.strategy] = ended]

\* the numbers of images the calls that returned have carried, this one included
SizesAfter(r, res) ==
  IF res.ok THEN req[r].sizes \cup {Len(res.images)} ELSE req[r].sizes

\* the numbers of invocations of each strategy that threw, this one included
ThrewAfter(r, res) ==
  IF res.ok THEN req[r].threw
  ELSE [req[r].threw EXCEPT ![req[r].strategy] = @ + 1]

\* an upstream call completes and generateImages issues the next one
NextCall(r, answers) ==
  /\ req[r].pc = "awaiting"
  /\ \E answer \in AnswersFor(req[r].strategy) \cap answers :
       LET res == StrategyCall(req[r].strategy, answer)
           step == generateImages(imageMode, Adapter(r), res)
       IN /\ step.kind = "call"
          /\ req' = [req EXCEPT
                       ![r].strategy = step.strategy, ![r].i = step.i, ![r].out = step.out,
                       ![r].calls = [req[r].calls EXCEPT ![step.strategy] = @ + 1],
                       ![r].sent = HistorySent(step.strategy, req[r].historyMessages),
                       ![r].aspectRatio = IF step.strategy = "native"
                                          THEN sizeToAspectRatio(req[r].size)
                                          ELSE @,
                       ![r].sizes = SizesAfter(r, res), ![r].threw = ThrewAfter(r, res),
                       ![r].outcome = OutcomeAfter(r, res)]
  /\ UNCHANGED <<now, imageMode, sessions, heap, files, imgFiles, nextId, nreq, storage>>

\* a handler whose saveSessionToFile lets the failed write escape
Succeed_SaveThrows(r, answers) ==
  /\ req[r].pc = "awaiting"
  /\ \E answer \in AnswersFor(req[r].strategy) \cap answers :
       LET res == StrategyCall(req[r].strategy, answer)
           step == generateImages(imageMode, Adapter(r), res)
           images == step.out
           userContent == buildUserContent(req[r].prompt, req[r].inputImage)
           session == updateSession(heap[req[r].obj], userContent, images)
           rq == [req EXCEPT
                    ![r].pc = "done", ![r].strategy = "none", ![r].i = 0, ![r].out = <<>>,
                    ![r].obj = 0, ![r].historyMessages = <<>>, ![r].sent = Null,
                    ![r].sizes = SizesAfter(r, res), ![r].threw = ThrewAfter(r, res),
                    ![r].outcome = OutcomeAfter(r, res),
                    ![r].result = IF RecordsUsable
                                  THEN OkResult(images, session.id)
                                  ELSE ErrorResult(PlainError("storage"))]
       IN /\ step.kind = "return"
          /\ req' = Pushed(rq, heap[req[r].obj], req[r].obj, userContent, images)
          /\ heap' = Collect([heap EXCEPT ![req[r].obj] = session], sessions, rq)
          /\ files' = SavedFiles(session, files)
          /\ imgFiles' = SavedImages(session, imgFiles)
  /\ UNCHANGED <<now, imageMode, sessions, nextId, nreq, storage>>

\* an upstream call completes, generateImages returns; the session is updated
\* and saved, and the images and the session id are returned
Succeed(r, answers) ==
  /\ req[r].pc = "awaiting"
  /\ \E answer \in AnswersFor(req[r].strategy) \cap answers :
       LET res == StrategyCall(req[r].strategy, answer)
           step == generateImages(imageMode, Adapter(r), res)
           images == step.out
           userContent == buildUserContent(req[r].prompt, req[r].inputImage)
           session == updateSession(heap[req[r].obj], userContent, images)
           rq == [req EXCEPT
                    ![r].pc = "done", ![r].strategy = "none", ![r].i = 0, ![r].out = <<>>,
                    ![r].obj = 0, ![r].historyMessages = <<>>, ![r].sent = Null,
                    ![r].sizes = SizesAfter(r, res), ![r].threw = ThrewAfter(r, res),
                    ![r].outcome = OutcomeAfter(r, res),
                    ![r].result = OkResult(images, session.id)]
       IN /\ step.kind = "return"
          /\ req' = Pushed(rq, heap[req[r].obj], req[r].obj, userContent, images)
          /\ heap' = Collect([heap EXCEPT ![req[r].obj] = session], sessions, rq)
          /\ files' = SavedFiles(session, files)
          /\ imgFiles' = SavedImages(session, imgFiles)
  /\ UNCHANGED <<now, imageMode, sessions, nextId, nreq, storage>>

\* a handler that records the user message before it reports the error
Fail_RecordsUserMessage(r, answers) ==
  /\ req[r].pc = "awaiting"
  /\ \E answer \in AnswersFor(req[r].strategy) \cap answers :
       LET res == StrategyCall(req[r].strategy, answer)
           step == generateImages(imageMode, Adapter(r), res)
           userContent == buildUserContent(req[r].prompt, req[r].inputImage)
           session == updateSession(heap[req[r].obj], userContent, <<>>)
           rq == [req EXCEPT
                    ![r].pc = "done", ![r].strategy = "none", ![r].i = 0, ![r].out = <<>>,
                    ![r].obj = 0, ![r].historyMessages = <<>>, ![r].sent = Null,
                    ![r].sizes = SizesAfter(r, res), ![r].threw = ThrewAfter(r, res),
                    ![r].outcome = OutcomeAfter(r, res),
                    ![r].result = ErrorResult(step.error)]
       IN /\ step.kind = "throw"
          /\ req' = rq
          /\ heap' = Collect([heap EXCEPT ![req[r].obj] = session], sessions, rq)
          /\ files' = SavedFiles(session, files)
          /\ imgFiles' = SavedImages(session, imgFiles)
  /\ UNCHANGED <<now, imageMode, sessions, nextId, nreq, storage>>

\* a handler that takes back the session it created when the request fails
Fail_DropsNewSession(r, answers) ==
  /\ req[r].pc = "awaiting"
  /\ \E answer \in AnswersFor(req[r].strategy) \cap answers :
       LET res == StrategyCall(req[r].strategy, answer)
           step == generateImages(imageMode, Adapter(r), res)
           id == heap[req[r].obj].id
           kept == IF req[r].isNew THEN Remove(sessions, {id}) ELSE sessions
           rq == [req EXCEPT
                    ![r].pc = "done", ![r].strategy = "none", ![r].i = 0, ![r].out = <<>>,
                    ![r].obj = 0, ![r].historyMessages = <<>>, ![r].sent = Null,
                    ![r].sizes = SizesAfter(r, res), ![r].threw = ThrewAfter(r, res),
                    ![r].outcome = OutcomeAfter(r, res),
                    ![r].result = ErrorResult(step.error)]
       IN /\ step.kind = "throw"
          /\ req' = rq
          /\ sessions' = kept
          /\ heap' = Collect(heap, kept, rq)
          /\ files' = IF req[r].isNew THEN DeletedFiles(id, files) ELSE files
          /\ imgFiles' = IF req[r].isNew THEN DeletedImages(id, imgFiles) ELSE imgFiles
  /\ UNCHANGED <<now, imageMode, nextId, nreq, storage>>

\* an upstream call completes, generateImages throws; the error is returned
Fail(r, answers) ==
  /\ req[r].pc = "awaiting"
  /\ \E answer \in AnswersFor(req[r].strategy) \cap answers :
       LET res == StrategyCall(req[r].strategy, answer)
           step == generateImages(imageMode, Adapter(r), res)
           rq == [req EXCEPT
                    ![r].pc = "done", ![r].strategy = "none", ![r].i = 0, ![r].out = <<>>,
                    ![r].obj = 0, ![r].historyMessages = <<>>, ![r].sent = Null,
                    ![r].sizes = SizesAfter(r, res), ![r].threw = ThrewAfter(r, res),
                    ![r].outcome = OutcomeAfter(r, res),
                    ![r].result = ErrorResult(step.error)]
       IN /\ step.kind = "throw"
          /\ req' = rq
          /\ heap' = Collect(heap, sessions, rq)
  /\ UNCHANGED <<now, imageMode, sessions, files, imgFiles, nextId, nreq, storage>>

(* ---------------------- the session API, called directly --------------- *)
\* the image lists updateSession can be handed, the empty one included
ImageLists == {BatchOf(len, first) : len \in 0..MaxBatch, first \in 1..Len(ImagePool)}

\* getOrCreateSession(sessionId) called on its own; the slot records the call
GetOrCreate(r, sessionIds) ==
  /\ req[r].pc # "awaiting"
  /\ nreq < MaxStoreCalls
  /\ \E sessionId \in sessionIds :
       /\ CanResolve(sessionId)
       /\ LET st == getOrCreateSession(sessionId)
              rq == [req EXCEPT ![r] =
                       [IdleReq EXCEPT
                          !.pc = "resolved", !.sessionId = sessionId,
                          !.isNew = isNewSession(sessionId, st.heap[st.obj]),
                          !.result = OkResult(<<>>, st.heap[st.obj].id)]]
          IN /\ req' = rq
             /\ sessions' = st.sessions
             /\ heap' = Collect(st.heap, st.sessions, rq)
             /\ files' = st.files
             /\ imgFiles' = st.imgFiles
             /\ nextId' = st.nextId
  /\ nreq' = nreq + 1
  /\ UNCHANGED <<now, imageMode, storage>>

\* updateSession(session, userContent, images) called on its own on a session
\* of the Map; the slot records the arguments
Update(r) ==
  /\ req[r].pc # "awaiting"
  /\ nreq < MaxStoreCalls
  /\ \E id \in DOMAIN sessions, images \in ImageLists,
        inputImage \in {Null, Some(ImgB)} :
       LET userContent == buildUserContent("make it blue", inputImage)
           session == updateSession(heap[sessions[id]], userContent, images)
       IN /\ req' = [req EXCEPT ![r] =
                       [IdleReq EXCEPT
                          !.pc = "updated", !.sessionId = id, !.prompt = "make it blue",
                          !.inputImage = inputImage,
                          !.result = OkResult(images, id)]]
          /\ heap' = [heap EXCEPT ![sessions[id]] = session]
          /\ files' = SavedFiles(session, files)
          /\ imgFiles' = SavedImages(session, imgFiles)
  /\ nreq' = nreq + 1
  /\ UNCHANGED <<now, imageMode, sessions, nextId, storage>>

(* ------------------------------ list_sessions ------------------------- *)
\* the members of a finite set of integers, smallest first
RECURSIVE Ordered(_)
Ordered(S) ==
  IF S = {} THEN <<>>
  ELSE LET least == CHOOSE x \in S : \A y \in S : x <= y
       IN <<least>> \o Ordered(S \ {least})

\* the summary listAllSessions pushes for an entry of the Map: id is the key
MemorySummary(id, session) ==
  [id |-> id, messageCount |-> Len(session.messages),
   hasImage |-> session.lastImage # Null,
   createdAt |-> session.createdAt, lastUsedAt |-> session.lastUsedAt,
   source |-> "memory"]
\* the summary it pushes for a record: id is the id the record holds
FileSummary(data) ==
  [id |-> data.id, messageCount |-> Len(data.messages),
   hasImage |-> data.lastImageRef # Null,
   createdAt |-> data.createdAt, lastUsedAt |-> data.lastUsedAt,
   source |-> "file"]

\* listAllSessions(): the entries of the Map, then the records whose file name
\* is not a key of the Map. The Map is walked in insertion order and the
\* directory in readdir order; both are listed here by id.
listAllSessions ==
  LET seenIds == DOMAIN sessions
      inMemory == Ordered(seenIds)
      onDisk == IF RecordsUsable THEN Ordered(DOMAIN files \ seenIds) ELSE <<>>
  IN [k \in 1..Len(inMemory) |-> MemorySummary(inMemory[k], heap[sessions[inMemory[k]]])]
     \o [k \in 1..Len(onDisk) |-> FileSummary(files[onDisk[k]])]

\* Array.prototype.sort((a, b) => b.lastUsedAt - a.lastUsedAt), which is stable
RECURSIVE SortedByLastUsed(_)
SortedByLastUsed(list) ==
  IF list = <<>> THEN <<>>
  ELSE LET rest == SortedByLastUsed(Tail(list))
           before == SelectSeq(rest, LAMBDA s : s.lastUsedAt > Head(list).lastUsedAt)
           after == SelectSeq(rest, LAMBDA s : s.lastUsedAt <= Head(list).lastUsedAt)
       IN before \o <<Head(list)>> \o after

\* handleListSessions(): the summaries, most recently used first, one entry of
\* the text each; the slot records them
ListSessions(r) ==
  /\ req[r].pc # "awaiting"
  /\ nreq < MaxStoreCalls
  /\ req' = [req EXCEPT ![r] =
               [IdleReq EXCEPT !.pc = "listed",
                               !.listing = SortedByLastUsed(listAllSessions)]]
  /\ nreq' = nreq + 1
  /\ UNCHANGED <<now, imageMode, sessions, heap, files, imgFiles, nextId, storage>>

(* ------------------- the chat-completions parser, on its own ----------- *)
\* the sequences of at most n entries of S
SeqsUpTo(S, n) == UNION {[1..k -> S] : k \in 0..n}

\* the parts of a candidate, the items of message.content, the URLs of message.images
CandidateParts ==
  {InlinePart("inlineData", ImgA.base64, ImgA.mimeType),
   InlinePart("inline_data", ImgB.base64, ""), PlainPart}
ContentItems ==
  {InlinePart("inline_data", ImgA.base64, ""), UrlPart(DataUrl(ImgB.mimeType, ImgB.base64)),
   UrlPart(UrlUp), UrlPart(UrlDown), UrlPart(UrlOther), PlainPart}
MessageImageUrls == {DataUrl(ImgA.mimeType, ImgA.base64), UrlUp, RawString("")}

\* the bodies a 2xx chat-completions response can carry: no or one candidate,
\* no, one or two choices (the second with one image in each of its places)
SecondChoices ==
  {NoMessage,
   Choice(<<InlinePart("inline_data", ImgB.base64, ImgB.mimeType)>>, <<>>),
   Choice(<<UrlPart(DataUrl(ImgB.mimeType, ImgB.base64))>>,
          <<DataUrl(ImgA.mimeType, ImgA.base64)>>)}
ChatBodies ==
  {Body(candidates, choices) :
     candidates \in {<<>>} \cup {<<[parts |-> ps]>> : ps \in SeqsUpTo(CandidateParts, MaxShape)},
     choices \in
       {<<>>}
         \cup {<<c>> \o rest :
                 c \in {NoMessage}
                         \cup {Choice(content, images) :
                                 content \in SeqsUpTo(ContentItems, MaxShape),
                                 images \in SeqsUpTo(MessageImageUrls, MaxShape - 1)},
                 rest \in {<<>>} \cup {<<c2>> : c2 \in SecondChoices}}}

\* generateImagesViaChatCompletions from the 2xx response on: the body is
\* parsed and the images returned, or the call throws; the slot records both
ParseResponse(r) ==
  /\ req[r].pc = "idle"
  /\ \E json \in ChatBodies :
       LET res == generateImagesViaChatCompletions(AnswerOfBody(json))
       IN req' = [req EXCEPT ![r] =
                    [IdleReq EXCEPT
                       !.pc = "parsed", !.strategy = "chat", !.body = json,
                       !.calls = [IdleReq.calls EXCEPT !["chat"] = 1],
                       !.result = IF res.ok THEN OkResult(res.images, NullId)
                                  ELSE ErrorResult(res.error)]]
  /\ UNCHANGED <<now, imageMode, sessions, heap, files, imgFiles, nextId, nreq, storage>>

(* ------------------------------ the sweep ------------------------------ *)
\* cleanupExpiredSessions that looks at the Map only
cleanupExpiredSessions_MemoryOnly ==
  LET expiredInMemory ==
        {id \in DOMAIN sessions : IsExpired(heap[sessions[id]].lastUsedAt, now)}
  IN [sessions |-> Remove(sessions, expiredInMemory),
      files |-> IF RecordsUsable
                THEN Remove(files, {getSessionFilePath(id) : id \in expiredInMemory})
                ELSE files,
      imgFiles |-> IF ImagesUsable
                   THEN Remove(imgFiles, {x \in DOMAIN imgFiles :
                                            \E id \in expiredInMemory : UnlinkedBy(id, x)})
                   ELSE imgFiles]

\* cleanupExpiredSessions(): the Map first, then the session directory
cleanupExpiredSessions ==
  LET expiredInMemory ==
        {id \in DOMAIN sessions : IsExpired(heap[sessions[id]].lastUsedAt, now)}
      files1 == IF RecordsUsable
                THEN Remove(files, {getSessionFilePath(id) : id \in expiredInMemory})
                ELSE files
      imgs1 == IF ImagesUsable
               THEN Remove(imgFiles, {x \in DOMAIN imgFiles :
                                        \E id \in expiredInMemory : UnlinkedBy(id, x)})
               ELSE imgFiles
      expiredOnDisk ==
        IF RecordsUsable
        THEN {id \in DOMAIN files1 : IsExpired(files1[id].lastUsedAt, now)}
        ELSE {}
  IN [sessions |-> Remove(sessions, expiredInMemory),
      files |-> Remove(files1, expiredOnDisk),
      imgFiles |-> IF ImagesUsable
                   THEN Remove(imgs1, {x \in DOMAIN imgs1 :
                                         \E id \in expiredOnDisk : UnlinkedBy(id, x)})
                   ELSE imgs1]

\* the setInterval callback of startSessionCleanup
Sweep ==
  /\ sessions' = cleanupExpiredSessions.sessions
  /\ files' = cleanupExpiredSessions.files
  /\ imgFiles' = cleanupExpiredSessions.imgFiles
  /\ heap' = Collect(heap, cleanupExpiredSessions.sessions, req)
  /\ UNCHANGED <<now, imageMode, nextId, req, nreq, storage>>

\* one of the two directories stops or starts answering (permissions, a full
\* or unmounted disk)
StorageChange ==
  /\ \E d \in {"records", "images"} : storage' = [storage EXCEPT ![d] = ~@]
  /\ UNCHANGED <<now, imageMode, sessions, heap, files, imgFiles, nextId, req, nreq>>

\* the clock advances
Tick ==
  /\ now < MaxTime
  /\ now' = now + 1
  /\ UNCHANGED <<imageMode, sessions, heap, files, imgFiles, nextId, req, nreq, storage>>

\* the process is restarted: the Map is empty again, the disk is as it was
Restart ==
  /\ sessions' = <<>>
  /\ heap' = <<>>
  /\ req' = [r \in Reqs |-> IdleReq]
  /\ UNCHANGED <<now, imageMode, files, imgFiles, nextId, nreq, storage>>

\* the process is restarted with SESSION_PERSIST set the other way: "0"
\* after the default, or back; the disk is as the earlier process left it
RestartReconfigured ==
  /\ sessions' = <<>>
  /\ heap' = <<>>
  /\ req' = [r \in Reqs |-> IdleReq]
  /\ storage' = [storage EXCEPT !.persist = ~@]
  /\ UNCHANGED <<now, imageMode, files, imgFiles, nextId, nreq>>

(* --------------------------- specifications ---------------------------- *)
\* a session an earlier process left on disk: one turn, "a red circle" -> ImgA
PriorSession ==
  updateSession([id |-> 1, messages |-> <<>>, lastImage |-> Null,
                 createdAt |-> 0, lastUsedAt |-> 0],
                StringContent("a red circle"), <<ImgA>>)

\* the process starts: an empty Map; the disk is empty or holds PriorSession
InitWith(modes, priorOnDisk) ==
  /\ storage = StorageWorks
  /\ now = 0
  /\ imageMode \in modes
  /\ sessions = <<>>
  /\ heap = <<>>
  /\ \E prior \in priorOnDisk :
       /\ files = IF prior THEN SavedFiles(PriorSession, <<>>) ELSE <<>>
       /\ imgFiles = IF prior THEN SavedImages(PriorSession, <<>>) ELSE <<>>
       /\ nextId = IF prior THEN 2 ELSE 1
  /\ req = [r \in OneRequest |-> IdleReq]
  /\ nreq = 0

\* the full system, in the modes and for the counts of SystemModes and SystemCounts
Init == InitWith(SystemModes, {FALSE})

Next ==
  \/ \E r \in OneRequest : RejectPrompt(r, MaxRequests)
  \/ \E r \in OneRequest :
       HandleGenerateImage(r, SessionIdArgs, SystemCounts, ImageArgs, NoSizeArg, MaxRequests)
  \/ \E r \in OneRequest : NextCall(r, Answers)
  \/ \E r \in OneRequest : Succeed(r, Answers)
  \/ \E r \in OneRequest : Fail(r, Answers)
  \/ Sweep
  \/ Tick
  \/ Restart

Spec == Init /\ [][Next]_vars

\* the prompts of the turns an earlier process served, oldest first
TurnPrompts ==
  <<"turn 1", "turn 2", "turn 3", "turn 4", "turn 5",
    "turn 6", "turn 7", "turn 8", "turn 9", "turn 10">>

\* session 1 after its first k turns: each turn edits the image of the turn before
RECURSIVE SessionAfterTurns(_)
SessionAfterTurns(k) ==
  IF k = 0
  THEN [id |-> 1, messages |-> <<>>, lastImage |-> Null, createdAt |-> 0, lastUsedAt |-> 0]
  ELSE LET before == SessionAfterTurns(k - 1)
       IN updateSession(before, buildUserContent(TurnPrompts[k], before.lastImage), <<ImgA>>)

\* the process starts with a long conversation on disk: one turn below the cap
\* of SESSION_MAX_HISTORY turns, or at it
HistoryInit ==
  /\ storage = StorageWorks
  /\ now = 0
  /\ imageMode \in SystemModes
  /\ sessions = <<>>
  /\ heap = <<>>
  /\ \E k \in {SESSION_MAX_HISTORY - 1, SESSION_MAX_HISTORY} :
       /\ files = SavedFiles(SessionAfterTurns(k), <<>>)
       /\ imgFiles = SavedImages(SessionAfterTurns(k), <<>>)
  /\ nextId = 2
  /\ req = [r \in OneRequest |-> IdleReq]
  /\ nreq = 0

\* requests for one image each: in the pinned native mode one call serves them
HistoryNext ==
  \/ \E r \in OneRequest : RejectPrompt(r, MaxRequests)
  \/ \E r \in OneRequest :
       HandleGenerateImage(r, SessionIdArgs, {MinCount}, NoImageArg, NoSizeArg, MaxRequests)
  \/ \E r \in OneRequest : Succeed(r, Answers)
  \/ \E r \in OneRequest : Fail(r, Answers)
  \/ Sweep
  \/ Tick
  \/ Restart

HistorySpec == HistoryInit /\ [][HistoryNext]_vars

\* the full system over a storage that can fail, one image per request
StorageNext ==
  \/ \E r \in OneRequest : RejectPrompt(r, MaxRequests)
  \/ \E r \in OneRequest :
       HandleGenerateImage(r, SessionIdArgs, {MinCount}, NoImageArg, NoSizeArg, MaxRequests)
  \/ \E r \in OneRequest : Succeed(r, Answers)
  \/ \E r \in OneRequest : Fail(r, Answers)
  \/ Sweep
  \/ Tick
  \/ Restart
  \/ StorageChange

StorageSpec == Init /\ [][StorageNext]_vars

\* the session API driven directly, as its exported functions allow
StoreNext ==
  \/ \E r \in OneRequest : GetOrCreate(r, SessionIdArgs)
  \/ \E r \in OneRequest : Update(r)
  \/ Sweep
  \/ Tick
  \/ Restart

StoreSpec == Init /\ [][StoreNext]_vars

\* the session API and list_sessions, driven by a caller that also passes
\* session_id strings which path.join resolves to the files of a session
AliasNext ==
  \/ \E r \in OneRequest : GetOrCreate(r, SessionIdArgs \cup AliasArgs)
  \/ \E r \in OneRequest : Update(r)
  \/ \E r \in OneRequest : ListSessions(r)
  \/ Sweep
  \/ Tick
  \/ Restart

AliasSpec == Init /\ [][AliasNext]_vars

\* the session API and list_sessions in a process that is restarted with
\* persistence disabled, or enabled again, over the disk of the process before
PersistNext ==
  \/ \E r \in OneRequest : GetOrCreate(r, SessionIdArgs \cup AliasArgs)
  \/ \E r \in OneRequest : Update(r)
  \/ \E r \in OneRequest : ListSessions(r)
  \/ Sweep
  \/ Tick
  \/ Restart
  \/ RestartReconfigured

PersistSpec == Init /\ [][PersistNext]_vars

\* two handlers in flight at once in chat mode, both called with the id of the
\* conversation on disk, which is one turn below the cap of SESSION_MAX_HISTORY
\* turns, and both asked for MaxSystemCount images while each answer carries
\* one; either handler can be suspended in an upstream call while the other
\* resolves, calls, updates and returns
ConcurrentInit ==
  /\ storage = StorageWorks
  /\ now = 0
  /\ imageMode = "chat"
  /\ sessions = <<>>
  /\ heap = <<>>
  /\ \E k \in {SESSION_MAX_HISTORY - 1} :
       /\ files = SavedFiles(SessionAfterTurns(k), <<>>)
       /\ imgFiles = SavedImages(SessionAfterTurns(k), <<>>)
  /\ nextId = 2
  /\ req = [r \in TwoRequests |-> IdleReq]
  /\ nreq = 0

ConcurrentNext ==
  \/ \E r \in TwoRequests :
       HandleGenerateImage(r, ConcurrentSessionIds, {MaxSystemCount}, NoImageArg,
                           NoSizeArg, MaxConcurrentRequests)
  \/ \E r \in TwoRequests : NextCall(r, ConcurrentAnswers)
  \/ \E r \in TwoRequests : Succeed(r, ConcurrentAnswers)
  \/ \E r \in TwoRequests : Fail(r, ConcurrentAnswers)
  \/ Sweep
  \/ Tick

ConcurrentSpec == ConcurrentInit /\ [][ConcurrentNext]_vars

\* one request of one image in the default mode, for every size argument
SizeNext ==
  \/ HandleGenerateImage(1, SessionIdArgs, {MinCount}, NoImageArg, SizeArgs, 1)
  \/ Succeed(1, Answers)
  \/ Fail(1, Answers)

SizeSpec == Init /\ [][SizeNext]_vars

\* one request in every mode and for every count, none of whose upstream calls
\* stays pending for ever: each returns, times out (fetchWithTimeout) or fails.
\* A call that is pending can always end in a failure, so Fail(1) is enabled
\* exactly while the handler waits, and Succeed(1) ends the wait: weak
\* fairness of the other two ways a call ends excludes the runs in which a
\* call never ends, and no other run.
CallEnds == NextCall(1, Answers) \/ Fail(1, Answers)

TerminationNext ==
  \/ HandleGenerateImage(1, SessionIdArgs, MinCount..MaxCount, NoImageArg, NoSizeArg, 1)
  \/ NextCall(1, Answers)
  \/ Succeed(1, Answers)
  \/ Fail(1, Answers)

TerminationSpec ==
  InitWith(ImageModes, {FALSE}) /\ [][TerminationNext]_vars /\ WF_vars(CallEnds)

\* one chat-completions response, for every body
ParserNext == ParseResponse(1)

ParserSpec == Init /\ [][ParserNext]_vars

\* one request against the adapter, in every mode and for every count
AdapterInit == InitWith(ImageModes, {FALSE, TRUE})

AdapterNext ==
  \/ RejectPrompt(1, 1)
  \/ HandleGenerateImage(1, SessionIdArgs, RawCounts, ImageArgs, NoSizeArg, 1)
  \/ NextCall(1, Answers)
  \/ Succeed(1, Answers)
  \/ Fail(1, Answers)

AdapterSpec == AdapterInit /\ [][AdapterNext]_vars

(* ------------------------------ claims --------------------------------- *)
\* the session an id names is past its TTL: in the Map, or only on disk
ExpiredSession(id) ==
  \/ id \in DOMAIN sessions /\ IsExpired(heap[sessions[id]].lastUsedAt, now)
  \/ /\ id \notin DOMAIN sessions
     /\ id \in DOMAIN files
     /\ IsExpired(files[id].lastUsedAt, now)

\* request r resolves its session in this step
Resolves(r) == req[r].pc # "awaiting" /\ req'[r].pc = "awaiting"

\* C1: getOrCreate never returns a session that is past its TTL; the request
\* for such an id gets a fresh session with another id.
C1_ExpiredNeverReturned ==
  [][\A r \in Reqs :
       (Resolves(r) /\ req'[r].sessionId \in Ids /\ ExpiredSession(req'[r].sessionId))
         => heap'[req'[r].obj].id # req'[r].sessionId]_vars

\* the session objects and the records a step keeps are as they were
SessionsUntouched ==
  /\ \A o \in (DOMAIN heap) \cap (DOMAIN heap') :
       /\ heap'[o].messages = heap[o].messages
       /\ heap'[o].lastImage = heap[o].lastImage
       /\ heap'[o].id = heap[o].id
  /\ \A id \in (DOMAIN files) \cap (DOMAIN files') :
       /\ files'[id].messages = files[id].messages
       /\ files'[id].lastImageRef = files[id].lastImageRef
  /\ \A x \in (DOMAIN imgFiles) \cap (DOMAIN imgFiles') : imgFiles'[x] = imgFiles[x]

\* request r completes successfully in this step
Succeeds(r) ==
  req[r].pc = "awaiting" /\ req'[r].pc = "done" /\ req'[r].result.status = "ok"
\* request r completes with an error in this step
Fails(r) ==
  req[r].pc = "awaiting" /\ req'[r].pc = "done" /\ req'[r].result.status = "error"

\* C2: a request that fails upstream leaves messages and lastImage of its session
\* as they were: no step of a request other than its successful completion
\* changes them, and the failing step adds no message and no image.
C2_FailureLeavesSessionUntouched ==
  [][/\ (\A r \in Reqs : ~Succeeds(r)) => SessionsUntouched
     /\ \A r \in Reqs :
          Fails(r) => /\ files' = files
                      /\ imgFiles' = imgFiles
                      /\ \A o \in DOMAIN heap' : heap'[o] = heap[o]]_vars

\* a request on a session with history failed after a call that had succeeded
C2_Witness ==
  \E r \in Reqs :
    /\ req[r].pc = "done"
    /\ req[r].result.status = "error"
    /\ ~req[r].isNew
    /\ \E s \in Strategies : req[r].calls[s] >= 2
    /\ req[r].sessionId \in DOMAIN sessions
    /\ Len(heap[sessions[req[r].sessionId]].messages) = 2
    /\ heap[sessions[req[r].sessionId]].lastImage = Some(ImgA)

\* the image files of session id
ImagesOf(id, images) == {x \in DOMAIN images : x[1] = id}

\* C3: while a request is in flight (between its getOrCreate and its update) no
\* step removes its session from the Map, its record or its image files.
C3_SweepSparesInFlight ==
  [][\A r \in Reqs :
       (req[r].pc = "awaiting" /\ req'[r].pc = "awaiting")
         => LET id == heap[req[r].obj].id
            IN /\ id \in DOMAIN sessions => id \in DOMAIN sessions'
               /\ id \in DOMAIN files => id \in DOMAIN files'
               /\ ImagesOf(id, imgFiles) \subseteq ImagesOf(id, imgFiles')]_vars

\* C4: a sweep leaves a session whose in-memory lastUsedAt is within the TTL
\* untouched: its Map entry, its record and its image files all stay.
C4_SweepLeavesRecentUntouched ==
  [][Sweep =>
       \A id \in DOMAIN sessions :
         ~IsExpired(heap[sessions[id]].lastUsedAt, now)
           => /\ id \in DOMAIN sessions'
              /\ id \in DOMAIN files => id \in DOMAIN files'
              /\ ImagesOf(id, imgFiles) \subseteq ImagesOf(id, imgFiles')]_vars

\* C5: expiration is irreversible: an id that was handed out and whose session
\* is gone from the Map and from the disk never names a session again.
C5_ExpirationIrreversible ==
  [][\A id \in Ids :
       (id < nextId /\ id \notin DOMAIN sessions /\ id \notin DOMAIN files)
         => (id \notin DOMAIN sessions' /\ id \notin DOMAIN files')]_vars

\* images-generation failed with a status that starts the fallback
ImagesUnsupported(r) ==
  /\ req[r].outcome["images"].state = "threw"
  /\ req[r].outcome["images"].error.name = "HttpError"
  /\ req[r].outcome["images"].error.status \in {404, 400}

\* C6: in auto mode, when images-generation failed with 404 or 400 and
\* native-generation then returned, the request returns native's images and
\* chat-completions was never called.
C6_NativeWinsWithoutChat ==
  \A r \in Reqs :
    (imageMode = "auto" /\ ImagesUnsupported(r)
       /\ req[r].outcome["native"].state = "returned")
      => /\ req[r].pc = "done"
         /\ req[r].result.status = "ok"
         /\ req[r].result.images = req[r].outcome["native"].images
         /\ Len(req[r].result.images) >= 1
         /\ req[r].calls["chat"] = 0

C6_Witness ==
  \E r \in Reqs :
    /\ imageMode = "auto"
    /\ ImagesUnsupported(r)
    /\ req[r].outcome["images"].error.status = 404
    /\ req[r].outcome["native"].state = "returned"
    /\ req[r].result.images = <<ImgA>>

\* C7: in auto mode, a failure of images-generation other than HTTP 404/400 is
\* returned to the caller at once; native and chat are not called.
C7_OtherFailuresPropagate ==
  \A r \in Reqs :
    (imageMode = "auto" /\ req[r].outcome["images"].state = "threw"
       /\ ~ImagesUnsupported(r))
      => /\ req[r].pc = "done"
         /\ req[r].result = ErrorResult(req[r].outcome["images"].error)
         /\ req[r].calls["native"] = 0
         /\ req[r].calls["chat"] = 0

C7_Witness ==
  \E r \in Reqs :
    /\ imageMode = "auto"
    /\ req[r].pc = "done"
    /\ req[r].outcome["images"].state = "threw"
    /\ req[r].outcome["images"].error = HttpError(500)
    /\ req[r].result.status = "error"

\* the strategies of the fallback chain, in order
FallbackChain == <<"images", "native", "chat">>

\* C8: in auto mode the strategies are tried in the order images, native, chat:
\* native only after images failed with 404/400, chat only after native failed,
\* and the result is that of the first strategy in this order that returned.
C8_FallbackOrder ==
  \A r \in Reqs :
    (imageMode = "auto" /\ req[r].pc \in {"awaiting", "done"}
       /\ req[r].result.error.cause # "prompt")
      => /\ req[r].calls["images"] = 1
         /\ req[r].calls["native"] > 0 => ImagesUnsupported(r)
         /\ req[r].calls["chat"] > 0 =>
              /\ req[r].calls["native"] > 0
              /\ req[r].outcome["native"].state = "threw"
         /\ req[r].pc = "awaiting" =>
              /\ req[r].outcome[req[r].strategy].state = "none"
              /\ req[r].calls[req[r].strategy] > 0
              /\ \A k \in 1..3 : req[r].outcome[FallbackChain[k]].state # "returned"
         /\ (req[r].pc = "done" /\ req[r].result.status = "ok") =>
              \E k \in 1..3 :
                /\ req[r].outcome[FallbackChain[k]] = StrategyReturned(req[r].result.images)
                /\ Len(req[r].result.images) >= 1
                /\ \A j \in 1..(k - 1) : req[r].outcome[FallbackChain[j]].state = "threw"
                /\ \A j \in (k + 1)..3 : req[r].calls[FallbackChain[j]] = 0
         /\ (req[r].pc = "done" /\ req[r].result.status = "error") =>
              \A k \in 1..3 : req[r].outcome[FallbackChain[k]].state # "returned"

C8_Witness ==
  \E r \in Reqs :
    /\ imageMode = "auto"
    /\ req[r].pc = "done"
    /\ req[r].result.status = "ok"
    /\ req[r].outcome["images"].state = "threw"
    /\ req[r].outcome["native"].state = "threw"
    /\ req[r].outcome["chat"].state = "returned"
    /\ req[r].calls["native"] >= 2

\* a strategy of request r got a 2xx response with no recognizable image
NoImagesFrom(r, s) ==
  /\ req[r].outcome[s].state = "threw"
  /\ req[r].outcome[s].error = PlainError("noimages")

C10_AtMostCount ==
  \A r \in Reqs :
    (req[r].pc = "done" /\ req[r].result.status = "ok")
      => Len(req[r].result.images) <= req[r].n

\* C11: in pinned chat mode, when every call that returned carried exactly one
\* image, a request with count k issues exactly k chat-completions calls, one
\* at a time (the calls issued are one more than the calls completed while it
\* waits), and returns exactly k images.
C11_ChatCountCalls ==
  \A r \in Reqs :
    (imageMode = "chat" /\ req[r].sizes \subseteq {1})
      => /\ req[r].pc = "awaiting" =>
              /\ req[r].calls["chat"] = req[r].i + 1
              /\ req[r].calls["chat"] = Len(req[r].out) + 1
              /\ req[r].calls["chat"] <= req[r].n
         /\ (req[r].pc = "done" /\ req[r].result.status = "ok") =>
              /\ req[r].calls["chat"] = req[r].n
              /\ Len(req[r].result.images) = req[r].n
              /\ req[r].calls["images"] = 0
              /\ req[r].calls["native"] = 0

\* count 3, three calls of one image each
C11_Witness ==
  \E r \in Reqs :
    /\ imageMode = "chat"
    /\ req[r].pc = "done"
    /\ req[r].result.status = "ok"
    /\ req[r].sizes = {1}
    /\ req[r].n = 3
    /\ req[r].calls["chat"] = 3
    /\ Len(req[r].result.images) = 3

\* the cap on a session's messages: SESSION_MAX_HISTORY turns of two messages
HistoryCap == SESSION_MAX_HISTORY * 2

\* every session object and every record holds at most HistoryCap messages
WithinCap ==
  /\ \A o \in DOMAIN heap : Len(heap[o].messages) <= HistoryCap
  /\ \A id \in DOMAIN files : Len(files[id].messages) <= HistoryCap

\* the update of request r keeps the most recent messages, in their order: the
\* new user and assistant messages come last and what stays of the old ones is
\* their tail
KeepsMostRecent(r) ==
  LET old == heap[req[r].obj].messages
      new == heap'[req[r].obj].messages
      kept == Len(new) - 2
  IN /\ Len(new) = IF Len(old) + 2 > HistoryCap THEN HistoryCap ELSE Len(old) + 2
     /\ new[Len(new) - 1].role = "user"
     /\ new[Len(new) - 1].content = buildUserContent(req[r].prompt, req[r].inputImage)
     /\ new[Len(new)].role = "assistant"
     /\ \A j \in 1..kept : new[j] = old[Len(old) - kept + j]

\* C12: no session ever holds more than 20 messages, in memory or on disk, and
\* an update that would exceed the cap drops the oldest messages and keeps the
\* most recent ones in their original order.
C12_HistoryCapped ==
  /\ []WithinCap
  /\ [][\A r \in Reqs :
          (Succeeds(r) /\ req[r].obj \in DOMAIN heap') => KeepsMostRecent(r)]_vars

\* a session at the cap whose oldest turn has been dropped
C12_Witness ==
  \E id \in DOMAIN sessions :
    /\ Len(heap[sessions[id]].messages) = HistoryCap
    /\ heap[sessions[id]].messages[1] =
         Message("user", buildUserContent(TurnPrompts[2], Some(ImgA)))
    /\ heap[sessions[id]].messages[HistoryCap - 1] =
         Message("user", buildUserContent("make it blue", Some(ImgA)))
    /\ id \in DOMAIN files
    /\ Len(files[id].messages) = HistoryCap

\* request r finds its session on disk only: the reload a fresh process does
Reloads(r) ==
  /\ Resolves(r)
  /\ req'[r].sessionId \notin DOMAIN sessions
  /\ FileHit(req'[r].sessionId)

\* the session a fresh process would load right after the update of request r
\* and the session object just updated
ReloadedAfter(r) == loadSessionFromFile(heap'[req[r].obj].id, files', imgFiles')
UpdatedBy(r) == heap'[req[r].obj]

\* the two agree on id, number of messages and the mime type of the last image
RoundTrip(r) ==
  LET session == UpdatedBy(r)
      loaded == ReloadedAfter(r)
  IN /\ loaded # Null
     /\ ~IsExpired(loaded[1].lastUsedAt, now')
     /\ loaded[1].id = session.id
     /\ Len(loaded[1].messages) = Len(session.messages)
     /\ loaded[1].lastImage # Null
     /\ loaded[1].lastImage[1].mimeType = session.lastImage[1].mimeType

\* the two last images have the same base64 text
SameBase64(r) ==
  ReloadedAfter(r)[1].lastImage[1].base64 = UpdatedBy(r).lastImage[1].base64
\* the two last images have the same bytes, and the reloaded text is canonical
SameBytes(r) ==
  LET loaded == ReloadedAfter(r)[1].lastImage[1].base64
      bytes == Base64Decode(UpdatedBy(r).lastImage[1].base64)
  IN Base64Decode(loaded) = bytes /\ loaded = Base64Encode(bytes)

\* the reload of a fresh process hands out what loadSessionFromFile built
ReloadIsLoad(r) ==
  LET id == req'[r].sessionId
      session == heap'[req'[r].obj]
      loaded == loadSessionFromFile(id, files, imgFiles)[1]
  IN /\ ~req'[r].isNew
     /\ sessions'[id] = req'[r].obj
     /\ session.id = id
     /\ session.messages = loaded.messages
     /\ session.lastImage = loaded.lastImage

\* C13 as stated: the session reloaded after an update has the same id, the
\* same number of messages and a last image with the same mime type and the
\* same payload text.
C13_RoundTripSamePayload ==
  [][\A r \in Reqs :
       /\ (Succeeds(r) /\ req[r].obj \in DOMAIN heap') => (RoundTrip(r) /\ SameBase64(r))
       /\ Reloads(r) => ReloadIsLoad(r)]_vars

\* C13 amended: the reloaded session has the same id, the same number of
\* messages and a last image with the same mime type and the same bytes; its
\* base64 text is the canonical encoding of those bytes.
C13_RoundTripSameBytes ==
  [][\A r \in Reqs :
       /\ (Succeeds(r) /\ req[r].obj \in DOMAIN heap') => (RoundTrip(r) /\ SameBytes(r))
       /\ Reloads(r) => ReloadIsLoad(r)]_vars

\* a restarted process has reloaded a session whose last image came from
\* upstream as unpadded base64
C13_Witness ==
  \E r \in Reqs :
    /\ req[r].pc = "awaiting"
    /\ ~req[r].isNew
    /\ heap[req[r].obj].lastImage = Some([base64 |-> "QQ==", mimeType |-> ImgB.mimeType])
    /\ Len(heap[req[r].obj].messages) = 2
    /\ req[r].inputImage = heap[req[r].obj].lastImage

\* an image part that carries its payload inline, as a data URL
InlinePayload(part) == part.type = "image_url" /\ part.url.isData

\* C14: no record on disk holds an inline image payload: every image part of
\* every persisted message is a file reference, whatever became of the writes
\* of the image files.
C14_NoInlinePayloadOnDisk ==
  \A id \in DOMAIN files :
    \A i \in 1..Len(files[id].messages) :
      LET content == files[id].messages[i].content
      IN content.isArray =>
           \A j \in 1..Len(content.parts) :
             /\ ~InlinePayload(content.parts[j])
             /\ content.parts[j].type = "image_url" => content.parts[j].refKey >= 0

\* what a request can fail with: its prompt, or what the upstream call threw
RequestErrors == {"prompt", "http", "timeout", "network", "urlfetch", "noimages"}

\* request r gets the last upstream answer generateImages needs to return
UpstreamDone(r) ==
  /\ req[r].pc = "awaiting"
  /\ req'[r].pc = "done"
  /\ req'[r].outcome[req[r].strategy].state = "returned"

FirstTurn(prompt, inputImage, images) ==
  <<Message("user", buildUserContent(prompt, inputImage)),
    Message("assistant",
      ArrayContent(<<TextPart(GeneratedText(Len(images))),
                     ImagePart(DataUrl(images[1].mimeType, images[1].base64))>>))>>

\* request r follows, in its slot, a request without session id that returned
\* session S; r names S, passes no image, and S is still in the Map
FollowsUp(r) ==
  /\ Resolves(r)
  /\ req[r].pc = "done"
  /\ req[r].result.status = "ok"
  /\ req[r].sessionId = NullId
  /\ req'[r].sessionId = req[r].result.sessionId
  /\ req'[r].imageArg = Null
  /\ req'[r].sessionId \in DOMAIN sessions

DataUrlArg == Some(DataUrl(ImgB.mimeType, ImgB.base64))
RawBase64Arg == Some(RawString(ImgA.base64))
\* the empty string, which the handler takes for no argument
EmptyArg == Some(RawString(""))

\* the session request r got is the one it asked for
Continued(r) == req'[r].sessionId = heap'[req'[r].obj].id

\* without an image argument: the last image of a continued session, or none
FromSession(r) ==
  IF Continued(r) /\ heap'[req'[r].obj].lastImage # Null
  THEN req'[r].inputImage = heap'[req'[r].obj].lastImage
  ELSE req'[r].inputImage = Null

\* C17 as stated: the input image is the image argument whenever one is
\* passed; otherwise the last image of a continued session; otherwise none.
C17_ExplicitImageAlwaysUsed ==
  [][\A r \in Reqs :
       Resolves(r) =>
         IF req'[r].imageArg # Null
         THEN req'[r].inputImage # Null
         ELSE FromSession(r)]_vars

\* C17 amended: an argument that is a data URL or raw base64 is the input
\* image; a non-empty argument that is neither gives no input image and the
\* last image is not used; without an argument, or with the empty string, the
\* input image is the last image of a continued session, or none; a new
\* session contributes no last image.
C17_EffectiveInputImage ==
  [][\A r \in Reqs :
       Resolves(r) =>
         /\ req'[r].isNew = ~Continued(r)
         /\ CASE req'[r].imageArg = DataUrlArg -> req'[r].inputImage = Some(ImgB)
              [] req'[r].imageArg = RawBase64Arg ->
                   req'[r].inputImage = Some([base64 |-> ImgA.base64, mimeType |-> "image/png"])
              [] req'[r].imageArg \in {Null, EmptyArg} -> FromSession(r)
              [] OTHER -> req'[r].inputImage = Null
         /\ (~Continued(r) /\ req'[r].imageArg \in {Null, EmptyArg})
              => req'[r].inputImage = Null]_vars

\* a continued session with a last image, and an argument that is no image
C17_Witness ==
  \E r \in Reqs :
    /\ req[r].pc = "awaiting"
    /\ ~req[r].isNew
    /\ heap[req[r].obj].lastImage = Some(ImgA)
    /\ req[r].imageArg = Some(RawString("not an image"))
    /\ req[r].inputImage = Null

\* slot r records a direct call of updateSession made in this step
Updates(r) == req'[r].pc = "updated" /\ nreq' = nreq + 1

\* C18: updateSession with no image appends the user message only and leaves
\* lastImage as it was; with images it appends the user message, then one
\* assistant message that embeds images[0], and sets lastImage to images[0].
C18_UpdateFrame ==
  [][\A r \in Reqs :
       Updates(r) =>
         LET id == req'[r].sessionId
             old == heap[sessions[id]]
             new == heap'[sessions[id]]
             images == req'[r].result.images
             user == Message("user", buildUserContent(req'[r].prompt, req'[r].inputImage))
         IN /\ new.id = old.id
            /\ new.createdAt = old.createdAt
            /\ IF images = <<>>
               THEN /\ new.messages = Append(old.messages, user)
                    /\ new.lastImage = old.lastImage
               ELSE /\ Len(new.messages) = Len(old.messages) + 2
                    /\ SubSeq(new.messages, 1, Len(old.messages) + 1)
                         = Append(old.messages, user)
                    /\ new.messages[Len(new.messages)].role = "assistant"
                    /\ new.messages[Len(new.messages)].content.parts[2]
                         = ImagePart(DataUrl(images[1].mimeType, images[1].base64))
                    /\ Len(new.messages[Len(new.messages)].content.parts) = 2
                    /\ new.lastImage = Some(images[1])]_vars

\* an update without images on a session whose last turn had produced two
C18_Witness ==
  \E r \in Reqs :
    /\ req[r].pc = "updated"
    /\ req[r].result.images = <<>>
    /\ req[r].sessionId \in DOMAIN sessions
    /\ heap[sessions[req[r].sessionId]].lastImage = Some(ImgA)
    /\ Len(heap[sessions[req[r].sessionId]].messages) = 3
    /\ heap[sessions[req[r].sessionId]].messages[2].content.parts[1].text = GeneratedText(2)
    /\ heap[sessions[req[r].sessionId]].messages[3].role = "user"

\* a session object that lives through the step is not stamped earlier
ObjectsNeverRewind ==
  \A o \in DOMAIN heap \cap DOMAIN heap' :
    heap'[o].lastUsedAt >= heap[o].lastUsedAt

\* a session loaded from its record is stamped no earlier than the record
ReloadNeverRewinds ==
  \A id \in DOMAIN sessions' \ DOMAIN sessions :
    id \in DOMAIN files => heap'[sessions'[id]].lastUsedAt >= files[id].lastUsedAt

\* a record that is rewritten is stamped no earlier than it was
RecordsNeverRewind ==
  \A id \in DOMAIN files \cap DOMAIN files' :
    files'[id].lastUsedAt >= files[id].lastUsedAt

\* C19: the clock never going back, no call of getOrCreateSession (found in
\* the Map or reloaded from its record) or of updateSession leaves a session
\* with a lastUsedAt smaller than before the call, and no other step does.
C19_LastUsedAtMonotone ==
  [][/\ now' >= now
     /\ ObjectsNeverRewind
     /\ ReloadNeverRewinds
     /\ RecordsNeverRewind]_vars

\* a session created at 0 and updated at 1 is asked for again at 2: it is in the
\* Map, or was reloaded after a restart, and is stamped 2
C19_Witness ==
  \E r \in Reqs :
    /\ req[r].pc = "resolved"
    /\ req[r].sessionId # NullId
    /\ ~req[r].isNew
    /\ req[r].sessionId \in DOMAIN sessions
    /\ req[r].sessionId \in DOMAIN files
    /\ heap[sessions[req[r].sessionId]].createdAt = 0
    /\ files[req[r].sessionId].lastUsedAt = 1
    /\ heap[sessions[req[r].sessionId]].lastUsedAt = 2
    /\ now = 2

\* nothing of session id is left: no Map entry, no record, no image file
Gone(id) ==
  /\ id \notin DOMAIN sessions'
  /\ id \notin DOMAIN files'
  /\ ImagesOf(id, imgFiles') = {}

\* C20: a pass of cleanupExpiredSessions with the storage working leaves
\* nothing of any session that was past its TTL when the pass ran, be it in
\* the Map, only on disk, or both: no Map entry, no record, no image file.
C20_SweepRemovesExpired ==
  [][(Sweep /\ storage = StorageWorks) =>
       \A id \in DOMAIN sessions \cup DOMAIN files :
         ExpiredSession(id) => Gone(id)]_vars

\* the only session ever created produced an image, and nothing of it is left
C20_Witness ==
  /\ nextId = 2
  /\ req[1].pc = "done"
  /\ req[1].result.status = "ok"
  /\ req[1].result.sessionId = 1
  /\ Len(req[1].result.images) > 0
  /\ 1 \notin DOMAIN sessions
  /\ 1 \notin DOMAIN files
  /\ ImagesOf(1, imgFiles) = {}
  /\ now > SessionTtl

\* the one strategy a mode other than auto calls
PinnedStrategy(mode) ==
  CASE mode = "gemini" -> "native"
    [] mode \in {"openai", "images"} -> "images"
    [] OTHER -> "chat"

\* C22: in a mode that pins a strategy (gemini, images/openai, chat) only that
\* strategy is ever called, and when it fails the request ends with its error.
C22_PinnedModeCallsOneStrategy ==
  \A r \in Reqs :
    imageMode # "auto"
      => /\ \A s \in Strategies \ {PinnedStrategy(imageMode)} :
              /\ req[r].calls[s] = 0
              /\ req[r].outcome[s] = NotTried
         /\ req[r].pc = "awaiting" => req[r].strategy = PinnedStrategy(imageMode)
         /\ req[r].outcome[PinnedStrategy(imageMode)].state = "threw"
              => /\ req[r].pc = "done"
                 /\ req[r].result
                      = ErrorResult(req[r].outcome[PinnedStrategy(imageMode)].error)

\* pinned images-generation answered 404, the status that starts the chain in auto
C22_Witness ==
  \E r \in Reqs :
    /\ imageMode = "images"
    /\ req[r].pc = "done"
    /\ req[r].outcome["images"] = StrategyThrew(HttpError(404))
    /\ req[r].result = ErrorResult(HttpError(404))
    /\ req[r].calls = [IdleReq.calls EXCEPT !["images"] = 1]

\* request r is answered in this step and its prompt is empty once trimmed
RejectsPrompt(r) ==
  /\ nreq' = nreq + 1
  /\ req'[r].pc = "done"
  /\ parsePrompt(req'[r].prompt) = ""

\* C23: a generate request whose prompt is empty or blank is answered with the
\* invalid-argument error and nothing else happens: no session is created,
\* looked up or refreshed, no file is written, no upstream call is issued; and
\* no request with such a prompt ever gets as far as an upstream call.
C23_EmptyPromptRejectedFirst ==
  /\ [](\A r \in Reqs : req[r].pc = "awaiting" => parsePrompt(req[r].prompt) # "")
  /\ [][\A r \in Reqs :
          RejectsPrompt(r)
            => /\ req'[r].result = ErrorResult(PlainError("prompt"))
               /\ \A s \in Strategies : req'[r].calls[s] = 0
               /\ req'[r].obj = 0
               /\ sessions' = sessions
               /\ heap' = heap
               /\ files' = files
               /\ imgFiles' = imgFiles
               /\ nextId' = nextId]_vars

\* the second request has a blank prompt; the session of the first is still
\* in the Map, stamped with the time of the first
C23_Witness ==
  \E r \in Reqs :
    /\ req[r].pc = "done"
    /\ req[r].prompt = " "
    /\ req[r].result = ErrorResult(PlainError("prompt"))
    /\ nreq = 2
    /\ nextId = 2
    /\ 1 \in DOMAIN sessions
    /\ heap[sessions[1]].lastUsedAt < now
    /\ Len(heap[sessions[1]].messages) = 2

\* the n argument is a number outside MinCount..MaxCount
OutOfRange(rawN) == rawN # NotANumber /\ (rawN < MinCount \/ rawN > MaxCount)

\* C24: a generate request whose count is below 1 or above 4 ends with the
\* invalid-argument error and issues no upstream call.
C24_OutOfRangeCountRejected ==
  \A r \in Reqs :
    OutOfRange(req[r].rawN)
      => /\ req[r].pc = "done"
         /\ req[r].result.status = "error"
         /\ \A s \in Strategies : req[r].calls[s] = 0

\* the entries of ratioMap nearest to w / h
NearestRatios(w, h) ==
  {k \in 1..Len(ratioMap) :
     \A j \in 1..Len(ratioMap) :
       Abs(w * ratioMap[k].den - ratioMap[k].num * h) * ratioMap[j].den
         <= Abs(w * ratioMap[j].den - ratioMap[j].num * h) * ratioMap[k].den}

\* the hint the nearest-ratio rule gives for a size
NearestHints(size) ==
  IF size.form # "WxH" THEN {"1:1"}
  ELSE LET near == {k \in NearestRatios(size.w, size.h) :
                      WithinTolerance(size.w, size.h, ratioMap[k])}
       IN IF near = {} THEN {"1:1"} ELSE {ratioMap[k].value : k \in near}

\* C25: the size hint of a native-generation call is, for a size WxH with W and
\* H positive, the ratio of the fixed set nearest to W/H when that ratio is
\* within 0.1 of W/H, and 1:1 when none is, or when the size is absent or not
\* of the form WxH.
C25_NearestRatioHint ==
  \A r \in Reqs :
    (req[r].calls["native"] > 0
       /\ (req[r].size.form = "WxH" => req[r].size.w > 0 /\ req[r].size.h > 0))
      => req[r].aspectRatio \in NearestHints(req[r].size)

\* request r, which names no session, resolves its session in this step
StartsFromScratch(r) == Resolves(r) /\ req'[r].sessionId = NullId

\* C26: a generate request without session id gets a new session under an id
\* that nothing in the store carries, with no message (the history sent
\* upstream is empty, and stays so while the request waits) and no last image;
\* its input image is the image argument or none; when it succeeds it returns
\* the id of that session.
C26_NoIdStartsFromScratch ==
  /\ [](\A r \in Reqs :
         (req[r].pc = "awaiting" /\ req[r].sessionId = NullId)
           => /\ heap[req[r].obj].messages = <<>>
              /\ heap[req[r].obj].lastImage = Null)
  /\ [][\A r \in Reqs :
          /\ StartsFromScratch(r) =>
               LET o == req'[r].obj
                   id == heap'[o].id
               IN /\ id = nextId
                  /\ nextId' = nextId + 1
                  /\ id \notin DOMAIN sessions
                  /\ id \notin DOMAIN files
                  /\ ImagesOf(id, imgFiles) = {}
                  /\ \A p \in DOMAIN heap : heap[p].id # id
                  /\ o \notin DOMAIN heap
                  /\ sessions' = Put(sessions, id, o)
                  /\ req'[r].isNew
                  /\ heap'[o].messages = <<>>
                  /\ heap'[o].lastImage = Null
                  /\ CASE req'[r].imageArg = DataUrlArg -> req'[r].inputImage = Some(ImgB)
                       [] req'[r].imageArg = RawBase64Arg ->
                            req'[r].inputImage
                              = Some([base64 |-> ImgA.base64, mimeType |-> "image/png"])
                       [] OTHER -> req'[r].inputImage = Null
          /\ (Succeeds(r) /\ req[r].sessionId = NullId) =>
               /\ req'[r].result.sessionId = heap[req[r].obj].id
               /\ req'[r].result.sessionId \notin {NullId, UnknownId}]_vars

\* the second request names no session while session 1, which has a last
\* image, is in the Map: it waits with session 2, no history and no input image
C26_Witness ==
  \E r \in Reqs :
    /\ nreq = 2
    /\ req[r].pc = "awaiting"
    /\ req[r].sessionId = NullId
    /\ req[r].imageArg = Null
    /\ req[r].inputImage = Null
    /\ heap[req[r].obj].id = 2
    /\ heap[req[r].obj].messages = <<>>
    /\ 1 \in DOMAIN sessions
    /\ heap[sessions[1]].lastImage # Null

\* the strategy invocations request r has made
Invocations(r) == req[r].calls["images"] + req[r].calls["native"] + req[r].calls["chat"]

\* the largest number of invocations of one request
InvocationBound(mode, count) ==
  CASE mode \in {"openai", "images"} -> 1
    [] mode = "auto" -> 1 + 2 * count
    [] OTHER -> count

\* C27: every upstream call ending, a request ends, after at most 1 strategy
\* invocation in images mode, count in gemini or chat mode and 1 + 2 * count in
\* auto mode; an invocation that fails is not repeated: the strategy is not
\* called again, what it had collected is dropped, and the images a request
\* returns come from a strategy none of whose invocations failed.
C27_BoundedInvocationsNoRetry ==
  /\ \A r \in OneRequest : (req[r].pc = "awaiting") ~> (req[r].pc = "done")
  /\ [](\A r \in Reqs :
         /\ Invocations(r) <= InvocationBound(imageMode, req[r].n)
         /\ \A s \in Strategies :
              /\ req[r].calls[s] <= (IF s = "images" THEN 1 ELSE req[r].n)
              /\ req[r].threw[s] <= 1
              /\ req[r].threw[s] = 1 =>
                   /\ req[r].outcome[s].state = "threw"
                   /\ req[r].pc = "awaiting" =>
                        /\ req[r].strategy # s
                        /\ req[r].i = 0 => req[r].out = <<>>
         /\ (req[r].pc = "done" /\ req[r].result.status = "ok") =>
              \E s \in Strategies :
                /\ req[r].threw[s] = 0
                /\ req[r].outcome[s] = StrategyReturned(req[r].result.images)
         /\ (req[r].pc = "done" /\ req[r].result.status = "error") =>
              req[r].result.images = <<>>)
  /\ [][\A r \in Reqs : \A s \in Strategies :
          req[r].threw[s] >= 1 => req'[r].calls[s] = req[r].calls[s]]_vars

\* auto mode, count 2: images-generation answered 404, the second native call
\* failed after the first had returned an image, chat-completions was called
\* twice and returned: 1 + 2 * 2 invocations
C27_Witness ==
  \E r \in Reqs :
    /\ imageMode = "auto"
    /\ req[r].n = 2
    /\ req[r].pc = "done"
    /\ req[r].result.status = "ok"
    /\ Invocations(r) = 5
    /\ req[r].threw = [images |-> 1, native |-> 1, chat |-> 0]
    /\ Len(req[r].result.images) = 2

\* the entries of a body that are an image: an inline part with data; an
\* image_url item or a message-level URL that is a data URL or an http URL
IsInlineImage(part) == part.kind \in {"inlineData", "inline_data"} /\ part.data # ""
IsUrlImage(u) == u.isData \/ StartsWithHttp(u)
IsContentImage(item) ==
  \/ item.kind = "inline_data" /\ item.data # ""
  \/ item.kind = "image_url" /\ IsUrlImage(item.url)

\* the image an entry stands for: its payload, or what its URL gives
ImageOfUrl(u) ==
  IF u.isData THEN [base64 |-> u.base64, mimeType |-> u.mimeType] ELSE Downloaded
ImageOfEntry(e) ==
  IF e.kind = "image_url" THEN ImageOfUrl(e.url)
  ELSE [base64 |-> e.data, mimeType |-> MimeOr(e.mime)]

\* the images of one place of a body, in the order of its entries
InlineImagesOf(parts) ==
  LET sel == SelectSeq(parts, IsInlineImage)
  IN [k \in 1..Len(sel) |-> ImageOfEntry(sel[k])]
ContentImagesOf(content) ==
  LET sel == SelectSeq(content, IsContentImage)
  IN [k \in 1..Len(sel) |-> ImageOfEntry(sel[k])]
MessageImagesOf(urls) ==
  LET sel == SelectSeq(urls, IsUrlImage)
  IN [k \in 1..Len(sel) |-> ImageOfUrl(sel[k])]

\* the images of candidate k and of choice k of a body, none when it has no such entry
OfCandidate(json, k) ==
  IF k <= Len(json.candidates) THEN InlineImagesOf(json.candidates[k].parts) ELSE <<>>
OfChoice(json, k) ==
  IF k <= Len(json.choices) /\ json.choices[k].hasMessage
  THEN ContentImagesOf(json.choices[k].content) \o MessageImagesOf(json.choices[k].images)
  ELSE <<>>

\* a URL of the body is downloaded and the download fails
DownloadFails(json) ==
  \E k \in 1..Len(json.choices) :
    /\ json.choices[k].hasMessage
    /\ \/ \E i \in 1..Len(json.choices[k].content) :
            json.choices[k].content[i] = UrlPart(UrlDown)
       \/ \E i \in 1..Len(json.choices[k].images) : json.choices[k].images[i] = UrlDown

\* C29: the chat-completions parser returns the images of every shape of the
\* body, none dropped or merged: first those of the candidates' inline parts,
\* then choice by choice those of message.content followed by those of
\* message.images; their number is the sum of the numbers found in each place
\* (every download succeeding; a body with no image is the no-images error).
C29_ParserConcatenatesShapes ==
  \A r \in Reqs :
    (req[r].pc = "parsed" /\ ~DownloadFails(req[r].body))
      => LET json == req[r].body
             expected == OfCandidate(json, 1) \o OfChoice(json, 1) \o OfChoice(json, 2)
             total == Len(OfCandidate(json, 1)) + Len(OfChoice(json, 1))
                        + Len(OfChoice(json, 2))
         IN /\ Len(json.candidates) <= 1
            /\ Len(json.choices) <= 2
            /\ IF total = 0
               THEN req[r].result = ErrorResult(PlainError("noimages"))
               ELSE /\ req[r].result.status = "ok"
                    /\ Len(req[r].result.images) = total
                    /\ req[r].result.images = expected

\* a body with images in the candidate, in the content and the image list of
\* the first choice and in the second choice; one image occurs twice
C29_Witness ==
  \E r \in Reqs :
    /\ req[r].pc = "parsed"
    /\ req[r].result.status = "ok"
    /\ Len(req[r].body.candidates) = 1
    /\ Len(req[r].body.choices) = 2
    /\ Len(OfCandidate(req[r].body, 1)) = 1
    /\ Len(ContentImagesOf(req[r].body.choices[1].content)) = 2
    /\ Len(MessageImagesOf(req[r].body.choices[1].images)) = 1
    /\ Len(OfChoice(req[r].body, 2)) = 2
    /\ Len(req[r].result.images) = 6
    /\ \E i, j \in 1..6 : i < j /\ req[r].result.images[i] = req[r].result.images[j]

\* request r, which names no session or one nobody knows, resolves its session
CreatesSession(r) == Resolves(r) /\ req'[r].sessionId \in {NullId, UnknownId}

\* the empty session with this id, as the Map holds it and as its record holds it
EmptySession(id, map, h, fs) ==
  /\ id \in DOMAIN map
  /\ h[map[id]].id = id
  /\ h[map[id]].messages = <<>>
  /\ h[map[id]].lastImage = Null
  /\ id \in DOMAIN fs
  /\ fs[id].id = id
  /\ fs[id].messages = <<>>
  /\ fs[id].lastImageRef = Null

\* C30: a request with a null or unknown id puts its new empty session into
\* the Map and on disk in the step that resolves it, while its first upstream
\* call is still pending: the store is the previous one plus that session. A
\* request that then fails takes nothing back: the Map, the records and the
\* image files are as they were before the failing step, the session is still
\* empty, and its id is not in the error result nor in any earlier result.
C30_FailedRequestLeavesEmptySession ==
  /\ [](\A r \in Reqs :
         (req[r].pc = "awaiting" /\ req[r].sessionId \in {NullId, UnknownId})
           => /\ req[r].isNew
              /\ heap[req[r].obj].messages = <<>>
              /\ heap[req[r].obj].lastImage = Null
              /\ req[r].result.sessionId # heap[req[r].obj].id)
  /\ [][\A r \in Reqs :
          /\ CreatesSession(r) =>
               LET id == heap'[req'[r].obj].id
               IN /\ id \notin DOMAIN sessions
                  /\ id \notin DOMAIN files
                  /\ DOMAIN sessions' = DOMAIN sessions \cup {id}
                  /\ DOMAIN files' = DOMAIN files \cup {id}
                  /\ \A k \in DOMAIN sessions : sessions'[k] = sessions[k]
                  /\ \A k \in DOMAIN files : files'[k] = files[k]
                  /\ imgFiles' = imgFiles
                  /\ sessions'[id] = req'[r].obj
                  /\ EmptySession(id, sessions', heap', files')
                  /\ Invocations(r)' = 1
                  /\ \A s \in Strategies : req'[r].outcome[s] = NotTried
          /\ (Fails(r) /\ req[r].sessionId \in {NullId, UnknownId}) =>
               LET id == heap[req[r].obj].id
               IN /\ sessions' = sessions
                  /\ files' = files
                  /\ imgFiles' = imgFiles
                  /\ req'[r].result.sessionId = NullId
                  /\ req'[r].result.sessionId # id
                  /\ (id \in DOMAIN sessions /\ sessions[id] = req[r].obj)
                       => EmptySession(id, sessions', heap', files')]_vars

\* the first request named no session and failed after two calls: session 1 is
\* in the Map and on disk without a message, and the caller has no id
C30_Witness ==
  \E r \in Reqs :
    /\ nreq = 1
    /\ req[r].pc = "done"
    /\ req[r].result.status = "error"
    /\ req[r].sessionId = NullId
    /\ req[r].result.sessionId = NullId
    /\ Invocations(r) = 2
    /\ DOMAIN sessions = {1}
    /\ DOMAIN files = {1}
    /\ EmptySession(1, sessions, heap, files)

\* every entry of the Map is stored under the id of its session
KeysAreIds == \A k \in DOMAIN sessions : heap[sessions[k]].id = k

\* no session object and no record changes its id
IdsNeverChange ==
  /\ \A o \in DOMAIN heap \cap DOMAIN heap' : heap'[o].id = heap[o].id
  /\ \A id \in DOMAIN files \cap DOMAIN files' : files'[id].id = files[id].id

\* request r is a call of getOrCreateSession that returns in this step
Returns(r) == req'[r].pc = "resolved" /\ nreq' = nreq + 1

\* C28: a session's id never changes; every entry of the Map, created there or
\* reloaded from its record, is stored under the id of its session; the id
\* getOrCreateSession returns is the key the Map holds that session under.
C28_SessionIdentityStable ==
  /\ []KeysAreIds
  /\ [][/\ IdsNeverChange
        /\ \A r \in Reqs :
             Returns(r) =>
               LET id == req'[r].result.sessionId
               IN /\ id \in DOMAIN sessions'
                  /\ heap'[sessions'[id]].id = id
                  /\ \A k \in DOMAIN sessions' : heap'[sessions'[k]].id = id => k = id]_vars

\* request r is a call of list_sessions that returns in this step
Lists(r) == req'[r].pc = "listed" /\ nreq' = nreq + 1

\* the ids of the sessions the Map holds and of those that have a record
IdsInMemory == {heap[sessions[k]].id : k \in DOMAIN sessions}
IdsOnDisk == {files[f].id : f \in DOMAIN files}

\* C21: list_sessions returns one summary for each session id that is in the
\* Map or has a record and no other summary: no id twice, a session that is in
\* the Map is reported from the Map, one that is only on disk from its
\* record; the call changes neither the Map, nor a session, nor the disk.
C21_ListReportsEachSessionOnce ==
  [][\A r \in Reqs :
       Lists(r) =>
         LET listing == req'[r].listing
             Of(id) == {i \in 1..Len(listing) : listing[i].id = id}
         IN /\ {listing[i].id : i \in 1..Len(listing)} = IdsInMemory \cup IdsOnDisk
            /\ Len(listing) = Cardinality(IdsInMemory \cup IdsOnDisk)
            /\ \A id \in IdsInMemory \cup IdsOnDisk :
                 /\ Cardinality(Of(id)) = 1
                 /\ \A i \in Of(id) :
                      listing[i].source = IF id \in IdsInMemory THEN "memory" ELSE "file"
            /\ \A i \in 1..(Len(listing) - 1) :
                 listing[i].lastUsedAt >= listing[i + 1].lastUsedAt
            /\ UNCHANGED <<sessions, heap, files, imgFiles, nextId, now>>]_vars

\* C33: generateImages never returns an empty list, whatever the mode and the
\* count; so the update of a request that succeeds is handed at least one
\* image: it appends the user message and the assistant message, in this
\* order, and lastImage becomes the first image returned.
C33_SuccessHasImage ==
  [][\A r \in Reqs :
       Succeeds(r) =>
         LET o == req[r].obj
             before == heap[o].messages
             images == req'[r].result.images
         IN /\ Len(images) >= 1
            /\ req[r].n \in MinCount..MaxCount
            /\ o \in DOMAIN heap'
            /\ Len(heap'[o].messages) = Len(before) + 2
            /\ SubSeq(heap'[o].messages, 1, Len(before)) = before
            /\ heap'[o].messages[Len(before) + 1].role = "user"
            /\ heap'[o].messages[Len(before) + 2].role = "assistant"
            /\ heap'[o].lastImage = Some(images[1])]_vars

\* a chat-mode request for four images succeeded after more than one call
C33_Witness ==
  \E r \in Reqs :
    /\ imageMode = "chat"
    /\ req[r].pc = "done"
    /\ req[r].result.status = "ok"
    /\ req[r].n = MaxCount
    /\ req[r].calls["chat"] >= 2
    /\ Len(req[r].result.images) >= 1
    /\ req[r].result.sessionId \in DOMAIN sessions
    /\ Len(heap[sessions[req[r].result.sessionId]].messages) = 2
    /\ heap[sessions[req[r].result.sessionId]].lastImage # Null

\* the image argument is no image: not a data URL, not raw base64
NoImage(imageArg) ==
  /\ imageArg # Null
  /\ parseDataUrl(imageArg[1]) = Null
  /\ \/ Base64Decode(imageArg[1].raw) = ""
     \/ Base64Encode(Base64Decode(imageArg[1].raw)) # imageArg[1].raw

\* C35 as stated: whenever an image argument is passed that is neither a
\* data URL nor raw base64 the request goes on without input image.
C35_UnparsableImageIsNone ==
  [][\A r \in Reqs :
       (Resolves(r) /\ NoImage(req'[r].imageArg))
         => req'[r].inputImage = Null]_vars

\* C35 amended: a non-empty image argument that is neither a data URL nor raw
\* base64 gives no input image, on a continued session with a last image too,
\* and the request goes on to its first upstream call; the empty string is
\* taken for no argument, and a continued session then gives its last image.
C35_NonEmptyUnparsableImageIsNone ==
  [][\A r \in Reqs :
       (Resolves(r) /\ NoImage(req'[r].imageArg))
         => /\ Invocations(r)' = 1
            /\ IF req'[r].imageArg = EmptyArg
               THEN FromSession(r)
               ELSE req'[r].inputImage = Null]_vars

\* a request on session 1, which has a last image, passed an argument that is
\* no image and succeeded: its user message carries the prompt only
C35_Witness ==
  \E r \in Reqs :
    /\ req[r].pc = "done"
    /\ req[r].result.status = "ok"
    /\ req[r].sessionId = 1
    /\ req[r].result.sessionId = 1
    /\ ~req[r].isNew
    /\ req[r].imageArg = Some(RawString("not an image"))
    /\ req[r].inputImage = Null
    /\ 1 \in DOMAIN sessions
    /\ Len(heap[sessions[1]].messages) = 4
    /\ heap[sessions[1]].messages[3] = Message("user", StringContent("make it blue"))

\* the age of a stamp, and the boundary: expired exactly when the age exceeds the TTL
Age(lastUsedAt) == now - lastUsedAt
PastTtl(lastUsedAt) == Age(lastUsedAt) > SessionTtl

\* the pass over the Map drops exactly the entries whose object is past the TTL
SweepBoundaryInMemory ==
  \A id \in DOMAIN sessions :
    id \in DOMAIN sessions' <=> ~PastTtl(heap[sessions[id]].lastUsedAt)

\* the pass over the directory drops the records that are past the TTL, and
\* keeps the others unless the pass over the Map deleted them
SweepBoundaryOnDisk ==
  \A id \in DOMAIN files :
    /\ PastTtl(files[id].lastUsedAt) => id \notin DOMAIN files'
    /\ (~PastTtl(files[id].lastUsedAt) /\ id \in DOMAIN files')
         => files'[id] = files[id]
    /\ (~PastTtl(files[id].lastUsedAt) /\ id \notin DOMAIN files')
         => id \in DOMAIN sessions /\ PastTtl(heap[sessions[id]].lastUsedAt)

\* a call of getOrCreateSession for an id that is only on disk returns the
\* session of the record exactly when the record is not past the TTL
ReloadBoundary ==
  \A r \in Reqs :
    (Returns(r) /\ req'[r].sessionId \in DOMAIN files
       /\ req'[r].sessionId \notin DOMAIN sessions)
      => (req'[r].result.sessionId = req'[r].sessionId
            <=> ~PastTtl(files[req'[r].sessionId].lastUsedAt))

\* the pass over the Map and the pass over the directory judge a session alike
SweepChecksAgree ==
  \A id \in DOMAIN sessions \cap DOMAIN files :
    PastTtl(heap[sessions[id]].lastUsedAt) <=> PastTtl(files[id].lastUsedAt)

\* C38: the sweep of the Map, the sweep of the directory and the reload test
\* of getOrCreateSession all take a session for expired exactly when
\* now - lastUsedAt > ttl, so a session aged exactly ttl is kept by the sweep
\* and reloaded by getOrCreateSession, and no session is kept by one of the
\* checks and rejected by another at the same instant.
C38_ExpiryBoundaryAgrees ==
  [][/\ Sweep => (SweepBoundaryInMemory /\ SweepBoundaryOnDisk /\ SweepChecksAgree)
     /\ ReloadBoundary]_vars

\* SESSION_PERSIST=0 in this process
PersistenceOff == ~storage.persist

\* the ids the Map holds in the summaries of a listing, and nothing else
ListsMemoryOnly(listing) ==
  /\ {listing[i].id : i \in 1..Len(listing)} = DOMAIN sessions
  /\ \A i \in 1..Len(listing) : listing[i].source = "memory"

\* C37: with persistence disabled no call of getOrCreateSession,
\* updateSession, cleanupExpiredSessions or listAllSessions writes, deletes or
\* reads a record or an image file: the two directories stay as they are, an
\* id that is not in the Map gets a fresh session even when its record is on
\* disk, and the listing shows the sessions of the Map only.
C37_PersistenceOffLeavesDiskAlone ==
  [][(PersistenceOff /\ storage' = storage) =>
       /\ files' = files
       /\ imgFiles' = imgFiles
       /\ \A r \in Reqs :
            /\ (Returns(r) /\ req'[r].sessionId \notin DOMAIN sessions) =>
                 /\ req'[r].result.sessionId = nextId
                 /\ nextId' = nextId + 1
                 /\ req'[r].isNew
                 /\ heap'[sessions'[nextId]].messages = <<>>
                 /\ heap'[sessions'[nextId]].lastImage = Null
            /\ Lists(r) => ListsMemoryOnly(req'[r].listing)]_vars

\* persistence is off, the record and the images of session 1 are on disk and
\* past the TTL, and a call for session 1 has returned the new session 2
C37_Witness ==
  \E r \in Reqs :
    /\ PersistenceOff
    /\ req[r].pc = "resolved"
    /\ req[r].sessionId = 1
    /\ req[r].result.sessionId = 2
    /\ DOMAIN sessions = {2}
    /\ DOMAIN files = {1}
    /\ ImagesOf(1, imgFiles) # {}
    /\ PastTtl(files[1].lastUsedAt)

\* the image_url parts of a message list, in message order
RECURSIVE ImagePartsOf(_)
ImagePartsOf(messages) ==
  IF messages = <<>> THEN <<>>
  ELSE (IF Head(messages).content.isArray
        THEN SelectSeq(Head(messages).content.parts, LAMBDA p : p.type = "image_url")
        ELSE <<>>)
       \o ImagePartsOf(Tail(messages))

\* what updateSession leaves in memory for the call that request r made: the
\* earlier messages as they were, the user message with the input image inline,
\* the assistant message with the first generated image inline, and lastImage
\* with its payload
InMemoryAfter(r) ==
  LET id == req'[r].sessionId
      before == heap[sessions[id]]
      after == heap'[sessions[id]]
      images == req'[r].result.images
      added == IF Len(images) > 0 THEN 2 ELSE 1
      n == Len(after.messages)
  IN /\ n >= added
     /\ SubSeq(after.messages, 1, n - added) = SliceLast(before.messages, n - added)
     /\ after.messages[n - added + 1] =
          Message("user", buildUserContent(req'[r].prompt, req'[r].inputImage))
     /\ Len(images) > 0 =>
          /\ after.messages[n].role = "assistant"
          /\ after.messages[n].content.parts[2] =
               ImagePart(DataUrl(images[1].mimeType, images[1].base64))
          /\ after.lastImage = Some(images[1])
     /\ Len(images) = 0 => after.lastImage = before.lastImage

\* what that call wrote: the record has the same messages with a reference in
\* place of each inline image, and a reference to the file of lastImage
OnDiskAfter(r) ==
  LET id == req'[r].sessionId
      after == heap'[sessions[id]]
      record == files'[after.id]
      inMemory == ImagePartsOf(after.messages)
      onDisk == ImagePartsOf(record.messages)
  IN /\ Len(record.messages) = Len(after.messages)
     /\ Len(onDisk) = Len(inMemory)
     /\ \A k \in 1..Len(inMemory) :
          IsExtractable(inMemory[k]) =>
            /\ onDisk[k].refKey >= 0
            /\ onDisk[k].url = RawString("[image stored separately]")
            /\ record.messageImageRefs[onDisk[k].refKey + 1].path \in DOMAIN imgFiles'
     /\ after.lastImage # Null =>
          /\ record.lastImageRef # Null
          /\ record.lastImageRef[1].path = getSessionImagePath(after.id)

\* C36: saving a session leaves the session in memory as updateSession built
\* it: its messages keep the image parts inline and lastImage keeps its
\* payload; the references are in the record on disk only (written when
\* persistence is enabled and both directories can be written).
C36_SavingLeavesMemoryInline ==
  [][\A r \in Reqs :
       Updates(r) => /\ InMemoryAfter(r)
                     /\ (RecordsUsable /\ ImagesUsable) => OnDiskAfter(r)]_vars

\* a call with an input image and a generated image has just been saved: the
\* record holds two references, the session in memory two inline images
C36_Witness ==
  \E r \in Reqs :
    /\ req[r].pc = "updated"
    /\ req[r].inputImage # Null
    /\ Len(req[r].result.images) > 0
    /\ req[r].sessionId \in DOMAIN sessions \cap DOMAIN files
    /\ LET inMemory == ImagePartsOf(heap[sessions[req[r].sessionId]].messages)
           onDisk == ImagePartsOf(files[req[r].sessionId].messages)
       IN /\ Len(inMemory) >= 2
          /\ \A k \in 1..Len(inMemory) : IsExtractable(inMemory[k])
          /\ \A k \in 1..Len(onDisk) : onDisk[k].refKey >= 0

\* request r, suspended in an upstream call, issues its next one
Repeats(r) ==
  req[r].pc = "awaiting" /\ req'[r].pc = "awaiting" /\ req'[r].calls # req[r].calls

\* C32: every upstream call of a request carries the history its session had
\* when the request resolved it: the first call carries the messages of the
\* session it got, and a repeated call carries what the call before carried,
\* whatever another request did to the session in between (the images API
\* carries no history).
C32_CallsCarryResolvedHistory ==
  [][\A r \in Reqs :
       /\ (Resolves(r) /\ req'[r].sent # Null) =>
            req'[r].sent = Some(heap'[req'[r].obj].messages)
       /\ (Repeats(r) /\ req[r].sent # Null /\ req'[r].sent # Null) =>
            req'[r].sent = req[r].sent]_vars

\* request r is in flight, for the same session id as request q, while q
\* completes, and both continued a session that existed
InFlightTogether(q, r) ==
  /\ q # r
  /\ req[q].pc = "awaiting"
  /\ req[r].pc = "awaiting"
  /\ req[r].sessionId = req[q].sessionId
  /\ ~req[q].isNew
  /\ ~req[r].isNew

\* the update of request q reaches the session request r holds: the messages
\* that session had, then q's user message and q's assistant message, less
\* what the cap drops, and q's first image as lastImage
UpdateReaches(q, r) ==
  LET before == heap[req[r].obj]
      after == heap'[req[r].obj]
      images == req'[q].result.images
      userContent == buildUserContent(req[q].prompt, req[q].inputImage)
  IN /\ after.messages =
          SliceLast(PushedMessages(before, userContent, images), SESSION_MAX_HISTORY * 2)
     /\ Len(images) > 0
     /\ after.messages[Len(after.messages) - 1].role = "user"
     /\ after.messages[Len(after.messages)].role = "assistant"
     /\ after.lastImage = Some(images[1])

\* C31: two generate requests in flight at once for the same existing session
\* id hold the same session object, and when one of them succeeds its user and
\* assistant messages are appended, in that order and next to each other, to
\* the history the other one will append to, with nothing lost but what the
\* cap drops; lastImage is the first image of the request that updated last.
C31_NoLostUpdate ==
  [][\A q, r \in Reqs :
       InFlightTogether(q, r) =>
         /\ req[r].obj = req[q].obj
         /\ Succeeds(q) => UpdateReaches(q, r)]_vars

\* user, assistant, user, assistant, ...: an even number of messages
Alternates(messages) ==
  /\ Len(messages) % 2 = 0
  /\ \A i \in 1..Len(messages) :
       messages[i].role = IF i % 2 = 1 THEN "user" ELSE "assistant"

\* C34: whatever generate requests did, one after the other or two at a time,
\* below the cap or across it, every session object and every record on disk
\* has a history of even length that alternates user and assistant messages
\* and starts with a user message.
C34_HistoryAlternates ==
  /\ \A o \in DOMAIN heap : Alternates(heap[o].messages)
  /\ \A id \in DOMAIN files : Alternates(files[id].messages)

\* both handlers were in flight for session 1 and both have succeeded; the
\* second update took the history over the cap, and the oldest turn is gone
C34_Witness ==
  /\ \A r \in Reqs : req[r].pc = "done" /\ req[r].result.status = "ok"
  /\ nreq = 2
  /\ 1 \in DOMAIN sessions
  /\ LET messages == heap[sessions[1]].messages
     IN /\ Len(messages) = SESSION_MAX_HISTORY * 2
        /\ messages[1] = SessionAfterTurns(SESSION_MAX_HISTORY - 1).messages[3]
        /\ files[1].messages[1].role = "user"

====
